---- MODULE Spec2Model ----
(***************************************************************************)
(* Session state machine, ingestion / FAQ background tasks and the chat    *)
(* retrieval fallback pipeline of the RAG chat backend.                    *)
(*                                                                         *)
(* One session id is modelled.  The session store holds at most one JSON   *)
(* record for it; the vector index holds named collections of points.      *)
(* Handlers are cut into steps at their accesses to the store / the index. *)
(***************************************************************************)
EXTENDS Integers, Sequences, FiniteSets, TLC

VARIABLES
    store,       \* the session store: the record under the session key, or NoSession
    index,       \* the vector index: collection name -> payloads of its points
    payload,     \* the ingestion task message dispatched by POST /ingest
    ingPending,  \* deliveries of that message still to be picked up by a worker
    ing,         \* the running ingestion task
    faqPending,  \* FAQ task messages still to be picked up
    faq,         \* the running FAQ task
    faqRetry,    \* retry messages of the FAQ task: the retries count of each
    chat,        \* the chat call in progress, and the last response
    requests,    \* requests and deliveries made so far
    putUsed,     \* whether PUT /session/{id} has written the record
    resolve,     \* a collection name being resolved: the arguments and the results
    flowlog,     \* the nodes the latest run of each flow executed, with their actions
    tasks,       \* the workers running at the same time on the session (SpecRace)
    rerun        \* a task run repeated with the outcomes of the first (SpecRerun)

vars == <<store, index, payload, ingPending, ing, faqPending, faq, faqRetry,
          chat, requests, putUsed, resolve, flowlog, tasks, rerun>>

\* ------------------------------------------------------------------ bounds
\* Requests made by clients and message deliveries made by the broker.
MaxRequests == 3

\* ------------------------------------------------------------------ values
None == "None"
\* The store holds no record under the session key.
NoSession == [absent |-> TRUE]
NoPayload == [absent |-> TRUE]
NoResponse == [code |-> 0]
NoId == <<>>
\* processed_content is the sequence of the joined chunk texts; None (and the
\* empty string, equally falsy) is the empty sequence.
NoContent == <<>>
ExitId == <<"e", "x", "i", "t">>

\* Strings the resolver takes apart are sequences of one-character strings.
SID == <<"a", "b", "1", "-", "x", "9">>
TempPdfPath == <<"/", "t", "/", "q", "7", ".", "p", "d", "f">>
WebUrl == <<"h", ":", "/", "/", "E", "x", ".", "c", "o", ":", "8", "/", "p">>
PdfName == <<"R", " ", "v", "2", ".", "p", "d", "f">>

StatusLiteral == {"processing", "faq_processing", "ready", "error"}

\* SessionData(user_session_id, input_type, input_value, active_namespaces=[])
SessionData(input_type, input_value) ==
    [input_type        |-> input_type,
     input_value       |-> input_value,
     processed_content |-> NoContent,
     generated_faqs    |-> <<>>,
     chat_history      |-> <<>>,
     context_is_ready  |-> FALSE,
     active_namespaces |-> <<>>,
     status            |-> "processing",
     message           |-> <<"Session initialized.">>]

\* model_validate_json: the only field whose stored value the model lets leave
\* its declared type is status (a Literal).
ValidRecord(rec) == rec.status \in StatusLiteral

\* get_session raises (pydantic ValidationError) on a stored record that does
\* not validate; it returns None when the key is absent.
Readable == IF store = NoSession THEN TRUE ELSE ValidRecord(store)

\* (variant) a session is created ready for chat
create_session_ready(input_type, input_value) ==
    [SessionData(input_type, input_value) EXCEPT !.context_is_ready = TRUE]

\* create_session: a fresh record is written under the new session id.
create_session(input_type, input_value) == SessionData(input_type, input_value)

\* (variant) every key of the updates is serialised, field or not
model_copy_merged(rec, updates) ==
    [f \in DOMAIN rec \cup DOMAIN updates |->
        IF f \in DOMAIN updates THEN updates[f] ELSE rec[f]]

\* model_copy(update=updates) followed by model_dump_json(): named fields are
\* replaced without validation, keys that are no field of SessionData are not
\* serialised, every other field is the one just read.
model_copy(rec, updates) ==
    [f \in DOMAIN rec |-> IF f \in DOMAIN updates THEN updates[f] ELSE rec[f]]

\* update_session(session_id, updates) applied to the stored value st:
\* the new stored value (unchanged when the id has no record).
update_session(st, session_id, updates) ==
    IF session_id = SID /\ st # NoSession THEN model_copy(st, updates) ELSE st

\* What update_session returns: None when there is no record.
update_session_found(st, session_id) == session_id = SID /\ st # NoSession

\* ------------------------------------------------- collection name resolver
UpperCase == {"E", "F", "R", "X"}
Digits == {"1", "2", "3", "4", "5", "7", "8", "9"}
LowerCase == {"a", "b", "c", "d", "e", "f", "g", "h", "i", "l", "m", "n", "o",
              "p", "q", "r", "s", "t", "u", "v", "w", "x"}

\* str.lower() on one character
lower_char(c) ==
    CASE c = "E" -> "e" [] c = "F" -> "f" [] c = "R" -> "r" [] c = "X" -> "x"
      [] OTHER -> c

\* (variant) the name keeps the case of its source
lower_skipped(s) == s

lower(s) == [i \in 1..Len(s) |-> lower_char(s[i])]

isalnum(c) == c \in UpperCase \cup LowerCase \cup Digits

\* index of the first occurrence of character c in s at or after i, 0 if none
RECURSIVE find(_, _, _)
find(s, c, i) ==
    IF i > Len(s) THEN 0 ELSE IF s[i] = c THEN i ELSE find(s, c, i + 1)

\* s.split(c)[0]
split0(s, c) ==
    IF find(s, c, 1) = 0 THEN s ELSE SubSeq(s, 1, find(s, c, 1) - 1)

\* index of the last occurrence of c in s, 0 if none
RECURSIVE rfind(_, _, _)
rfind(s, c, i) ==
    IF i < 1 THEN 0 ELSE IF s[i] = c THEN i ELSE rfind(s, c, i - 1)

\* os.path.basename
basename(s) == SubSeq(s, rfind(s, "/", Len(s)) + 1, Len(s))

\* index of the first "//" in s, 0 if none
RECURSIVE find_slashes(_, _)
find_slashes(s, i) ==
    IF i + 1 > Len(s) THEN 0
    ELSE IF s[i] = "/" /\ s[i + 1] = "/" THEN i ELSE find_slashes(s, i + 1)

\* urlparse(source).netloc for scheme://netloc/path sources: the text between
\* the "//" and the next "/"; empty when the source has no "//".
netloc(s) ==
    LET k == find_slashes(s, 1) IN
    IF k = 0 THEN <<>>
    ELSE LET rest == SubSeq(s, k + 2, Len(s)) IN split0(rest, "/")

\* str.replace(a, b) for single characters
replace(s, a, b) == [i \in 1..Len(s) |-> IF s[i] = a THEN b ELSE s[i]]

\* str.strip("-")
RECURSIVE lstrip(_)
lstrip(s) == IF s # <<>> /\ Head(s) = "-" THEN lstrip(Tail(s)) ELSE s
RECURSIVE rstrip(_)
rstrip(s) ==
    IF s # <<>> /\ s[Len(s)] = "-" THEN rstrip(SubSeq(s, 1, Len(s) - 1)) ELSE s
strip(s) == rstrip(lstrip(s))

\* utils/qdrant_storage.py _generate_collection_name
_generate_collection_name(input_type, source, user_session_id) ==
    LET session_prefix == split0(user_session_id, "-") IN
    IF input_type = "website" THEN
        LET domain == replace(replace(netloc(source), ".", "-"), ":", "-")
        IN lower(<<"w", "e", "b", "-">> \o domain \o <<"-">> \o session_prefix)
    ELSE IF input_type = "pdf" THEN
        LET filename0 == split0(basename(source), ".")
            filename == strip([i \in 1..Len(filename0) |->
                               IF isalnum(filename0[i]) THEN filename0[i] ELSE "-"])
        IN lower(<<"p", "d", "f", "-">> \o filename \o <<"-">> \o session_prefix)
    ELSE lower(<<"u", "n", "k", "n", "o", "w", "n", "-">> \o session_prefix)

\* utils/rag_query_engine.py _generate_collection_name, without the strip
\* (variant)
query_generate_collection_name_unstripped(input_type, source, user_session_id) ==
    LET session_prefix == split0(user_session_id, "-") IN
    IF input_type = "website" THEN
        LET domain == replace(replace(netloc(source), ".", "-"), ":", "-")
        IN lower(<<"w", "e", "b", "-">> \o domain \o <<"-">> \o session_prefix)
    ELSE IF input_type = "pdf" THEN
        LET filename0 == split0(basename(source), ".")
            filename == [i \in 1..Len(filename0) |->
                            IF isalnum(filename0[i]) THEN filename0[i] ELSE "-"]
        IN lower(<<"p", "d", "f", "-">> \o filename \o <<"-">> \o session_prefix)
    ELSE lower(<<"u", "n", "k", "n", "o", "w", "n", "-">> \o session_prefix)

\* utils/rag_query_engine.py _generate_collection_name
query_generate_collection_name(input_type, source, user_session_id) ==
    LET session_prefix == split0(user_session_id, "-") IN
    IF input_type = "website" THEN
        LET parsed_url_netloc == netloc(source)
            domain == replace(replace(parsed_url_netloc, ".", "-"), ":", "-")
        IN lower(<<"w", "e", "b", "-">> \o domain \o <<"-">> \o session_prefix)
    ELSE IF input_type = "pdf" THEN
        LET filename0 == split0(basename(source), ".")
            filename == strip([i \in 1..Len(filename0) |->
                               IF isalnum(filename0[i]) THEN filename0[i] ELSE "-"])
        IN lower(<<"p", "d", "f", "-">> \o filename \o <<"-">> \o session_prefix)
    ELSE lower(<<"u", "n", "k", "n", "o", "w", "n", "-">> \o session_prefix)

\* The arguments the resolvers are applied to.
ResolveTypes == {"website", "pdf", "txt"}

ExampleUrl == <<"h", "t", "t", "p", "s", ":", "/", "/", "e", "x", "a", "m", "p", "l", "e", ".", "c", "o", "m", "/", "p", "a", "g", "e">>
ExamplePdf == <<"R", "e", "p", "o", "r", "t", " ", "F", "i", "n", "a", "l", " ", "v", "2", ".", "p", "d", "f">>
ExampleId == <<"a", "b", "c", "1", "2", "3", "4", "5", "-", "x", "x", "x", "x">>

ResolveSources ==
    {ExampleUrl, ExamplePdf, WebUrl, PdfName, TempPdfPath,
     <<"h", ":", "/", "/", "u", "@", "a", "_", "b", ".", "c", "o", "/", "p">>,
     <<"_", "a", " ", "b", ".", "c", ".", "p", "d", "f">>,
     <<"/", "d", ".", "e", "/", "-", "X", "_", ".", "p", "d", "f">>,
     <<"a", ".", "c", "o", "/", "p">>,
     <<>>}

ResolveIds == {ExampleId, SID, <<"x", "9">>}

\* No name resolved yet (a resolved name is never empty).
NotResolved == <<>>

\* No resolution going on.
NoResolve ==
    [input_type |-> None, source |-> <<>>, user_session_id |-> NoId,
     storage |-> NotResolved, query |-> NotResolved, again |-> NotResolved]

\* ------------------------------------------------------------ idle processes
\* What the services answered during a chat call, when not consulted.
NoVec == [kind |-> "unused", answer |-> <<>>, resources |-> <<>>, scores |-> <<>>]
NoWeb == [called |-> FALSE, text |-> <<>>]
NoLLM == [kind |-> "unused", text |-> <<>>]

\* The chat call in progress.  entry, hist0 and alone record what the entry
\* point read and whether another handler ran during the call; calls, vec, web
\* and llm record the services of the call and what they answer.
IdleChat ==
    [pc |-> "idle", question |-> None, user_query |-> None, chat_history |-> <<>>,
     user_session_id |-> NoId, contextless_chat |-> FALSE,
     answer |-> <<>>, resources |-> <<>>, action |-> None,
     calls |-> <<>>, vec |-> NoVec, web |-> NoWeb, llm |-> NoLLM,
     response |-> NoResponse,
     entry |-> "none", hist0 |-> <<>>, alone |-> TRUE]

\* The call has returned response: the locals of the handler are gone.
chat_done(c, response) ==
    [IdleChat EXCEPT !.response = response, !.entry = c.entry, !.alone = c.alone,
                     !.calls = c.calls, !.vec = c.vec, !.web = c.web,
                     !.llm = c.llm]

\* A step of another handler while a chat call is in progress.
Disturb(c) == IF c.pc # "idle" THEN [c EXCEPT !.alone = FALSE] ELSE c

\* -------------------------------------------------------------- HTTP layer
GenericFailure == "An unexpected error occurred while processing your request."
UnexpectedPrefix == "An unexpected server error occurred: "
ExecTypeError == <<"ChatQueryNode.exec() missing 1 required positional argument: 'shared'">>

Http(code, detail) == [code |-> code, detail |-> detail]
ChatResponse(answer, resources) ==
    [code |-> 200, answer |-> answer, resources |-> resources]

\* ------------------------------------------------------------ the two flows
\* The successor of a node for an action is an edge (node, action, successor).
NoNode == "None"

\* create_setup_flow:
\*   input_node >> content_processing_node
\*   content_processing_node - "error" >> end_node
\*   content_processing_node >> end_node
create_setup_flow ==
    {<<"InputNode", "default", "ContentProcessingNode">>,
     <<"ContentProcessingNode", "error", "EndNode">>,
     <<"ContentProcessingNode", "default", "EndNode">>}

\* (variant) the FAQ node's default action leads to the end node as well
create_faq_flow_default_edge ==
    {<<"FAQGenerationNode", "error", "EndNode">>,
     <<"FAQGenerationNode", "default", "EndNode">>}

\* create_faq_flow:
\*   faq_generation_node - "error" >> end_node
create_faq_flow == {<<"FAQGenerationNode", "error", "EndNode">>}

\* Flow.get_next_node: curr.successors.get(action or "default")
get_next_node(successors, curr, action) ==
    LET a == IF action = None THEN "default" ELSE action
        nxt == {e[3] : e \in {d \in successors : d[1] = curr /\ d[2] = a}}
    IN IF nxt = {} THEN NoNode ELSE CHOOSE n \in nxt : TRUE

\* Flow._orch after curr returned action, when every node that follows is an
\* EndNode (prep and post inherited, the action None): the nodes run, each with
\* its action.
RECURSIVE orch_end(_, _, _)
orch_end(successors, curr, action) ==
    LET nxt == get_next_node(successors, curr, action) IN
    IF nxt = NoNode THEN <<>>
    ELSE <<<<nxt, None>>>> \o orch_end(successors, nxt, None)

\* No flow has run.
NoRuns == [setup |-> <<>>, faq |-> <<>>]

\* ------------------------------------------------------- POST /ingest
IngestInputs ==
    {[input_type |-> "website", input_value |-> WebUrl, pdf_file_content_b64 |-> FALSE],
     [input_type |-> "pdf", input_value |-> PdfName, pdf_file_content_b64 |-> TRUE],
     [input_type |-> "pdf", input_value |-> <<>>, pdf_file_content_b64 |-> FALSE]}

\* ingest_content: create the session and dispatch the ingestion task with a
\* dump of the new record (plus the uploaded bytes).
ingest_content ==
    /\ store = NoSession
    /\ \E inp \in IngestInputs :
         /\ store' = create_session(inp.input_type, inp.input_value)
         /\ payload' = inp
    /\ ingPending' = ingPending + 1
    /\ requests < MaxRequests
    /\ requests' = requests + 1
    /\ chat' = Disturb(chat)
    /\ UNCHANGED <<index, ing, faqPending, faqRetry, faq, putUsed, resolve, flowlog, tasks, rerun>>

\* ------------------------------------------------------- vector index
\* index maps the name of every existing collection to the sequence of the
\* payloads of its points, in insertion order (ids are fresh uuid4 values).
Exists(name) == name \in DOMAIN index

Point(chunk, input_type, i) ==
    [text |-> chunk.text, source |-> chunk.source, vector |-> chunk.embedding,
     type |-> input_type, chunk_index |-> i]

\* vectors_to_upsert of store_embeddings_in_qdrant (lines 69-90)
vectors_to_upsert(embedded_chunks, input_type) ==
    [i \in 1..Len(embedded_chunks) |-> Point(embedded_chunks[i], input_type, i - 1)]

\* get_collection / create_collection / upsert(wait=True), lines 94-114.
\* outcome "ok": the collection exists afterwards and holds the new points;
\* "raise_first": no client, or the first call raised, nothing changed;
\* "raise_upsert": the collection
\* was created when absent and the upsert then failed.
QdrantOutcomes == {"ok", "raise_first", "raise_upsert"}

\* (variant) upsert(wait=False): the call returns before the points are stored
qdrant_upsert_no_wait(idx, name, points, outcome) ==
    LET ensured == IF name \in DOMAIN idx THEN idx ELSE idx @@ (name :> <<>>) IN
    CASE outcome = "ok" -> ensured
      [] outcome = "raise_upsert" -> ensured
      [] OTHER -> idx

qdrant_upsert(idx, name, points, outcome) ==
    LET ensured == IF name \in DOMAIN idx THEN idx ELSE idx @@ (name :> <<>>) IN
    CASE outcome = "ok" -> [ensured EXCEPT ![name] = @ \o points]
      [] outcome = "raise_upsert" -> ensured
      [] OTHER -> idx

\* list(current_namespaces) after current_namespaces.add(name): the elements
\* of a Python set come out in an order the run does not control.
RECURSIVE Perms(_)
Perms(S) ==
    IF S = {} THEN {<<>>}
    ELSE UNION {{<<x>> \o p : p \in Perms(S \ {x})} : x \in S}

Range(seq) == {seq[i] : i \in 1..Len(seq)}

namespaces_with(active_namespaces, name) == Perms(Range(active_namespaces) \cup {name})

\* ------------------------------------------------------- ingestion task
\* The windows the splitter cuts the acquired content into (texts are
\* sequences of pieces).
Windows == <<<<"w1">>, <<"w2">>>>
Embedding(text) == <<"e">> \o text

\* (variant) a failed request is answered with a vector of zeros
create_embedding_zeros(text, ok) == IF ok THEN Embedding(text) ELSE <<"0">>

\* create_embedding: the embedding of the text, or [] when the request raised
create_embedding(text, ok) == IF ok THEN Embedding(text) ELSE <<>>

\* (variant) a failed embedding request ends the loop: the windows embedded
\* before it are returned
process_and_embed_yaml_aborting(source, ok) ==
    LET F[i \in 0..Len(Windows)] ==
          IF i = 0 THEN <<>>
          ELSE IF ok[i] /\ Len(F[i - 1]) = i - 1
               THEN Append(F[i - 1], [source |-> source, text |-> Windows[i],
                                      embedding |-> Embedding(Windows[i])])
               ELSE F[i - 1]
    IN F[Len(Windows)]

\* process_and_embed_yaml: the windows whose embedding request succeeded, in
\* order, each with source, text, embedding (ok[i] tells whether window i did).
process_and_embed_yaml(source, ok) ==
    LET F[i \in 0..Len(Windows)] ==
          IF i = 0 THEN <<>>
          ELSE LET embedding == create_embedding(Windows[i], ok[i]) IN
               IF embedding # <<>>
               THEN Append(F[i - 1], [source |-> source, text |-> Windows[i],
                                      embedding |-> embedding])
               ELSE F[i - 1]
    IN F[Len(Windows)]

EmbedOutcomes == [1..Len(Windows) -> BOOLEAN]

\* " ".join(chunk['text'] ...): kept as the sequence of the joined texts
combined_processed_content(chunks) == [i \in 1..Len(chunks) |-> chunks[i].text]

\* acquired records what the content acquisition of the last run returned
\* ("empty", "text"), once the run has ended on it or on the embedding.
IdleIngRec ==
    [pc |-> "idle", input_type |-> None, input_value |-> <<>>,
     source_for_namespace |-> <<>>, embedded_chunks |-> <<>>,
     acquired |-> "unknown"]

\* A step of the ingestion task found the stored record unreadable: the
\* exception reaches the task's except clause, whose update_session raises too.
IngRaised == IdleIngRec

\* str(e) of the OSError raised when the temporary file cannot be written
TempFileError == <<"[Errno 28] No space left on device">>

\* (variant) the except clause of the task records nothing
task_except_store_silent(st, e) == st

\* run_ingestion_flow lines 41-46, the except clause entered with cause e (its
\* str): the stored value it leaves.
task_except_store(st, e) ==
    update_session(st, SID, [status |-> "error", message |-> e])

\* run_ingestion_flow lines 17-39 and InputNode (prep, exec, post).
run_ingestion_flow_with(wrote) ==
    /\ ing.pc = "idle"
    /\ ingPending > 0
    /\ ingPending' = ingPending - 1
    /\ LET has_pdf == payload.input_type = "pdf" /\ payload.pdf_file_content_b64
           input_value == IF has_pdf THEN TempPdfPath ELSE payload.input_value
           source == payload.input_value
       IN
       IF has_pdf /\ ~wrote THEN
           \* lines 30-33 raise (the temporary file cannot be written): the
           \* except clause of the task, the flow does not start
           /\ store' = IF Readable THEN task_except_store(store, TempFileError)
                       ELSE store
           /\ ing' = IdleIngRec
           /\ flowlog' = [flowlog EXCEPT !.setup = <<>>]
       ELSE IF input_value = <<>> THEN
           \* InputNode.prep: "Input type or value missing"; its "error" action
           \* has no successor, the run ends.
           /\ Readable
           /\ store' = update_session(store, SID,
                  [status |-> "error",
                   message |-> <<"Input type or value missing for content processing.">>])
           /\ ing' = IF get_next_node(create_setup_flow, "InputNode", "error")
                          = "ContentProcessingNode"
                      THEN [IdleIngRec EXCEPT !.pc = "content"]
                      ELSE IdleIngRec
           /\ flowlog' = [flowlog EXCEPT !.setup = <<<<"InputNode", "error">>>>]
       ELSE IF ~Readable THEN
           /\ store' = store
           /\ ing' = IngRaised
           /\ flowlog' = [flowlog EXCEPT !.setup = <<>>]
       ELSE
           /\ store' = store
           /\ ing' = IF get_next_node(create_setup_flow, "InputNode", "default")
                          = "ContentProcessingNode"
                      THEN [IdleIngRec EXCEPT !.pc = "content",
                               !.input_type = payload.input_type,
                               !.input_value = input_value,
                               !.source_for_namespace = source]
                      ELSE IdleIngRec
           /\ flowlog' = [flowlog EXCEPT !.setup = <<<<"InputNode", "default">>>>]
    /\ chat' = Disturb(chat)
    /\ UNCHANGED <<index, payload, faqPending, faqRetry, faq, requests, putUsed,
                   resolve, tasks>>

\* a delivery of the ingestion message is picked up, the temporary file
\* written or not
run_ingestion_flow ==
    /\ \E wrote \in BOOLEAN : run_ingestion_flow_with(wrote)
    /\ UNCHANGED rerun

\* At-least-once delivery: the broker hands the same ingestion message out again.
redeliver_ingestion_step ==
    /\ payload # NoPayload
    /\ ingPending = 0
    /\ requests < MaxRequests
    /\ requests' = requests + 1
    /\ ingPending' = 1
    /\ UNCHANGED <<store, index, payload, ing, faqPending, faqRetry, faq, chat, putUsed,
                   resolve, flowlog, tasks>>

redeliver_ingestion ==
    /\ redeliver_ingestion_step
    /\ UNCHANGED rerun

\* (variant) the failure is stored the way an empty acquisition is (post
\* line 76)
post_no_content_update(error_message) ==
    [status |-> "ready", context_is_ready |-> FALSE,
     message |-> <<"No content to process.">>]

\* ContentProcessingNode.post lines 68-71 and 80-83: the updates of a failed
\* acquisition and of an empty embedded batch
post_error_update(error_message) ==
    [status |-> "error", message |-> <<error_message>>]

\* The temporary file exists exactly when the task wrote the uploaded bytes.
file_exists(path) == path = TempPdfPath

\* ContentProcessingNode.prep, exec and post up to process_and_embed_yaml.
\* got: content acquisition returned text; ok: which windows were embedded.
ContentProcessingNode_exec_with(got, ok) ==
    /\ ing.pc = "content"
    /\ LET acquired == got /\ (ing.input_type = "pdf" => file_exists(ing.input_value))
             chunks == process_and_embed_yaml(ing.input_value, ok)
             failure ==
                 IF ~acquired
                 THEN IF ing.input_type = "website" THEN "Failed to crawl website."
                      ELSE "Failed to extract text from PDF."
                 ELSE "Failed to create embeddings."
         IN
         IF acquired /\ chunks # <<>> THEN
             /\ ing' = [ing EXCEPT !.pc = "upsert", !.embedded_chunks = chunks]
             /\ store' = store
             /\ flowlog' = flowlog
         ELSE IF ~Readable THEN
             /\ ing' = IngRaised
             /\ store' = store
             /\ flowlog' = flowlog
         ELSE
             /\ flowlog' = [flowlog EXCEPT !.setup =
                       Append(@, <<"ContentProcessingNode", "error">>)
                       \o orch_end(create_setup_flow, "ContentProcessingNode", "error")]
             /\ ing' = [IdleIngRec EXCEPT
                           !.acquired = IF acquired THEN "text" ELSE "empty"]
             /\ store' = update_session(store, SID, post_error_update(failure))
    /\ chat' = Disturb(chat)
    /\ UNCHANGED <<index, payload, ingPending, faqPending, faqRetry, faq, requests, putUsed,
                   resolve, tasks>>

\* the content is acquired or not, and each window embedded or not
ContentProcessingNode_exec ==
    /\ \E got \in BOOLEAN, ok \in EmbedOutcomes :
         ContentProcessingNode_exec_with(got, ok)
    /\ UNCHANGED rerun

\* store_embeddings_in_qdrant lines 58-114 as called by ContentProcessingNode.post,
\* and post's handling of a False result (lines 89-92).
ingest_store_embeddings_with(outcome) ==
    /\ ing.pc = "upsert"
    /\ LET name == _generate_collection_name(ing.input_type,
                         ing.source_for_namespace, SID)
             points == vectors_to_upsert(ing.embedded_chunks, ing.input_type)
         IN
         /\ index' = qdrant_upsert(index, name, points, outcome)
         /\ IF outcome = "ok" THEN
                /\ ing' = [ing EXCEPT !.pc = "namespace"]
                /\ store' = store
                /\ flowlog' = flowlog
            ELSE IF ~Readable THEN
                /\ ing' = IngRaised
                /\ store' = store
                /\ flowlog' = flowlog
            ELSE
                /\ flowlog' = [flowlog EXCEPT !.setup =
                          Append(@, <<"ContentProcessingNode", "error">>)
                          \o orch_end(create_setup_flow, "ContentProcessingNode", "error")]
                /\ ing' = IdleIngRec
                /\ store' = update_session(store, SID,
                       [status |-> "error",
                        message |-> <<"Failed to store embeddings in vector DB.">>])
    /\ chat' = Disturb(chat)
    /\ UNCHANGED <<payload, ingPending, faqPending, faqRetry, faq, requests, putUsed,
                   resolve, tasks>>

\* the index answers, or fails at its first call or at the upsert
ingest_store_embeddings ==
    /\ \E outcome \in QdrantOutcomes : ingest_store_embeddings_with(outcome)
    /\ UNCHANGED rerun

\* store_embeddings_in_qdrant lines 118-127: record the collection on the session.
\* The stored value after it, one for each order list(set) may produce.
\* (variant) the collection name is not recorded in the session
record_namespace_skipped(st, name) == {st}

\* (variant) the collection name is appended to the list as it is
record_namespace_appended(st, name) ==
    IF st = NoSession THEN {st}
    ELSE {update_session(st, SID,
              [active_namespaces |-> Append(st.active_namespaces, name)])}

record_namespace(st, name) ==
    IF st = NoSession THEN {st}
    ELSE {update_session(st, SID, [active_namespaces |-> ns]) :
              ns \in namespaces_with(st.active_namespaces, name)}

ingest_record_namespace_step ==
    /\ ing.pc = "namespace"
    /\ IF ~Readable THEN
           \* get_session raises inside the try: store_embeddings returns False,
           \* and post's update_session raises in turn
           /\ ing' = IngRaised
           /\ store' = store
       ELSE
           /\ store' \in record_namespace(store,
                  _generate_collection_name(ing.input_type,
                      ing.source_for_namespace, SID))
           /\ ing' = [ing EXCEPT !.pc = "ready"]
    /\ chat' = Disturb(chat)
    /\ UNCHANGED <<index, payload, ingPending, faqPending, faqRetry, faq, requests, putUsed,
                   resolve, flowlog, tasks>>

ingest_record_namespace ==
    /\ ingest_record_namespace_step
    /\ UNCHANGED rerun

\* ContentProcessingNode.post lines 94-101, then EndNode; the task returns.
ContentProcessingNode_post_step ==
    /\ ing.pc = "ready"
    /\ IF ~Readable THEN
           /\ ing' = IngRaised
           /\ store' = store
           /\ flowlog' = flowlog
       ELSE
           /\ flowlog' = [flowlog EXCEPT !.setup =
                     Append(@, <<"ContentProcessingNode", "default">>)
                     \o orch_end(create_setup_flow, "ContentProcessingNode", "default")]
           /\ store' = update_session(store, SID,
                  [status |-> "ready", context_is_ready |-> TRUE,
                   message |-> <<"Content processed and ready for chat.">>,
                   processed_content |->
                       combined_processed_content(ing.embedded_chunks)])
           /\ ing' = IdleIngRec
    /\ chat' = Disturb(chat)
    /\ UNCHANGED <<index, payload, ingPending, faqPending, faqRetry, faq, requests, putUsed,
                   resolve, tasks>>

ContentProcessingNode_post ==
    /\ ContentProcessingNode_post_step
    /\ UNCHANGED rerun

\* ------------------------------------------------------- FAQ generation
Faqs == <<[question |-> "Q1", answer |-> "A1"], [question |-> "Q2", answer |-> "A2"]>>

\* generate_faqs: a validated list of {question, answer}, or [] on any failure
GenerateOutcomes == {<<>>, Faqs}

\* "\n\n".join("Question: ...\nAnswer: ..." ...): the questions and answers
\* in order
RECURSIVE combined_faq_text(_)
combined_faq_text(generated_faqs) ==
    IF generated_faqs = <<>> THEN <<>>
    ELSE <<Head(generated_faqs).question, Head(generated_faqs).answer>>
         \o combined_faq_text(Tail(generated_faqs))

IdleFaq ==
    [pc |-> "idle", input_type |-> None, input_value |-> <<>>,
     processed_content |-> NoContent, error_message |-> None,
     generated_faqs |-> <<>>, stored |-> FALSE, exc |-> None]

\* (variant) generate_faq does not look at context_is_ready
generate_faq_unchecked ==
    /\ requests < MaxRequests
    /\ store # NoSession
    /\ Readable
    /\ requests' = requests + 1
    /\ store' = update_session(store, SID,
           [status |-> "faq_processing", message |-> <<"FAQ generation in progress.">>])
    /\ faqPending' = faqPending + 1
    /\ chat' = Disturb(chat)
    /\ UNCHANGED <<index, payload, ingPending, ing, faq, faqRetry, putUsed, resolve,
                   flowlog, tasks, rerun>>

\* generate_faq (POST /faq/generate/{id})
generate_faq ==
    /\ requests < MaxRequests
    /\ store # NoSession
    /\ Readable
    /\ store.context_is_ready
    /\ requests' = requests + 1
    /\ store' = update_session(store, SID,
           [status |-> "faq_processing", message |-> <<"FAQ generation in progress.">>])
    /\ faqPending' = faqPending + 1
    /\ chat' = Disturb(chat)
    /\ UNCHANGED <<index, payload, ingPending, ing, faq, faqRetry, putUsed, resolve,
                   flowlog, tasks, rerun>>

\* generate_faq on a session that is absent or not ready: 404 / 400, nothing
\* is written and no task is dispatched.
generate_faq_rejected ==
    /\ requests < MaxRequests
    /\ Readable
    /\ (IF store = NoSession THEN TRUE ELSE ~store.context_is_ready)
    /\ requests' = requests + 1
    /\ chat' = Disturb(chat)
    /\ UNCHANGED <<store, index, payload, ingPending, ing, faqPending, faqRetry, faq, putUsed,
                   resolve, flowlog, tasks, rerun>>

\* @celery_app.task(max_retries=3)
max_retries == 3

\* str(e) of the exception redis_client raises on a connection failure
StoreError == <<"Error 111 connecting to redis. Connection refused.">>

\* str(e) of the exception redis_client raises when a read times out
StoreTimeout == <<"Timeout reading from socket">>

\* whether the session store answers the first call made inside faq_flow.run
StoreFaults == {"none", "transient"}

\* the same, with the two ways in which it does not answer
StoreFaultsRetry == {"none", "transient", "timeout"}

\* str(e) of the exception a fault of the store raises
fault_text(fault) == IF fault = "timeout" THEN StoreTimeout ELSE StoreError

\* (variant) self.retry gives up one attempt later
task_retry_late(retries) == ~(retries > max_retries)

\* self.retry(exc=e, countdown=60): TRUE when the retry message is sent (and
\* Retry raised), FALSE when retries + 1 exceeds max_retries (and e raised).
task_retry(retries) == ~(retries + 1 > max_retries)

\* (variant) the except clause keeps the message of an error already stored
faq_except_store_first(st, e) ==
    IF st # NoSession /\ st.status = "error"
    THEN st
    ELSE update_session(st, SID, [status |-> "error", message |-> e])

\* run_faq_generation_flow lines 100-110: the except clause's write
faq_except_store(st, e) ==
    update_session(st, SID, [status |-> "error", message |-> e])

\* (variant) the FAQ run takes the path of a temporary file for its source
faq_source_temp(st) == TempPdfPath

\* shared_data = session_obj.model_dump() (line 72): the source a FAQ run
\* knows is the stored input_value
faq_source(st) == st.input_value

\* run_faq_generation_flow lines 59-82 and 100-116, with
\* self.request.retries = retries and queue the retry messages left: the
\* task's own readiness check, then faq_flow.run up to the first store call
\* of the node's prep. When the store does not answer that call the exception
\* leaves faq_flow.run, is raised again at line 82 and handled at lines
\* 100-116: the error is written and self.retry(exc=e) called; exc keeps the
\* text of e, the exception the run ends with.
faq_task_start(retries, queue, faults) ==
    IF ~Readable THEN
        /\ store' = store
        /\ faq' = IdleFaq
        /\ faqRetry' = queue
    ELSE IF store = NoSession \/ ~store.context_is_ready THEN
        /\ store' = update_session(store, SID,
               [status |-> "error",
                message |-> <<"Content not ready for FAQ generation.">>])
        /\ faq' = IdleFaq
        /\ faqRetry' = queue
    ELSE
        \E fault \in faults :
          IF fault # "none" THEN
              /\ store' = faq_except_store(store, fault_text(fault))
              /\ faq' = [IdleFaq EXCEPT !.exc = fault_text(fault)]
              /\ faqRetry' = IF task_retry(retries)
                             THEN Append(queue, retries + 1)
                             ELSE queue
          ELSE
              /\ store' = store
              /\ faq' = [IdleFaq EXCEPT !.pc = "prep",
                            !.input_type = store.input_type,
                            !.input_value = faq_source(store),
                            !.processed_content = store.processed_content]
              /\ faqRetry' = queue

\* run_faq_generation_flow picked up from the message generate_faq dispatched
run_faq_generation_flow_on(faults) ==
    /\ faq.pc = "idle"
    /\ faqPending > 0
    /\ faqPending' = faqPending - 1
    /\ faq_task_start(0, faqRetry, faults)
    /\ flowlog' = [flowlog EXCEPT !.faq = <<>>]
    /\ chat' = Disturb(chat)
    /\ UNCHANGED <<index, payload, ingPending, ing, requests, putUsed, resolve,
                   tasks, rerun>>

run_faq_generation_flow == run_faq_generation_flow_on(StoreFaults)

\* run_faq_generation_flow picked up from a message self.retry sent
run_faq_generation_flow_retry_on(faults) ==
    /\ faq.pc = "idle"
    /\ faqRetry # <<>>
    /\ faq_task_start(Head(faqRetry), Tail(faqRetry), faults)
    /\ flowlog' = [flowlog EXCEPT !.faq = <<>>]
    /\ chat' = Disturb(chat)
    /\ UNCHANGED <<index, payload, ingPending, ing, faqPending, requests, putUsed,
                   resolve, tasks, rerun>>

run_faq_generation_flow_retry == run_faq_generation_flow_retry_on(StoreFaults)

\* `not processed_content`
falsy_content(c) == c = NoContent

\* FAQGenerationNode.prep
FAQGenerationNode_prep ==
    /\ faq.pc = "prep"
    /\ IF ~Readable THEN
           /\ store' = store
           /\ faq' = IdleFaq
       ELSE
           LET st1 == update_session(store, SID,
                          [status |-> "faq_processing",
                           message |-> <<"FAQ generation in progress.">>])
               msg == "No processed content available for FAQ generation."
           IN
           IF falsy_content(faq.processed_content) THEN
               /\ store' = update_session(st1, SID,
                               [status |-> "error", message |-> <<msg>>])
               /\ faq' = [faq EXCEPT !.pc = "exec", !.error_message = msg]
           ELSE
               /\ store' = st1
               /\ faq' = [faq EXCEPT !.pc = "exec"]
    /\ chat' = Disturb(chat)
    /\ UNCHANGED <<index, payload, ingPending, ing, faqPending, faqRetry, requests,
                   putUsed, resolve, flowlog, tasks, rerun>>

\* FAQGenerationNode.exec and post up to the store operation (lines 34-99).
\* On the error path post addresses the session id exec returned: None when
\* prep had failed, so that update reaches no record.
FAQGenerationNode_exec ==
    /\ faq.pc = "exec"
    /\ IF faq.error_message # None THEN
           /\ store' = update_session(store, NoId,
                           [status |-> "error", message |-> <<faq.error_message>>])
           /\ index' = index
           /\ faq' = [faq EXCEPT !.pc = "finish"]
           /\ flowlog' = [flowlog EXCEPT !.faq =
                     <<<<"FAQGenerationNode", "error">>>>
                     \o orch_end(create_faq_flow, "FAQGenerationNode", "error")]
       ELSE
           \E generated \in GenerateOutcomes, embedded \in BOOLEAN,
              outcome \in QdrantOutcomes :
             IF generated = <<>> THEN
                 /\ index' = index
                 /\ IF ~Readable THEN
                        /\ store' = store
                        /\ faq' = IdleFaq
                        /\ flowlog' = flowlog
                    ELSE
                        /\ store' = update_session(store, SID,
                               [status |-> "error",
                                message |-> <<"Failed to generate FAQs.">>])
                        /\ faq' = [faq EXCEPT !.pc = "finish"]
                        /\ flowlog' = [flowlog EXCEPT !.faq =
                                  <<<<"FAQGenerationNode", "error">>>>
                                  \o orch_end(create_faq_flow, "FAQGenerationNode", "error")]
             ELSE
                 LET name == _generate_collection_name(faq.input_type,
                                 faq.input_value, SID)
                     chunk == [text |-> combined_faq_text(generated),
                               embedding |-> create_embedding(
                                                 combined_faq_text(generated), embedded),
                               source |-> faq.input_value]
                 IN
                 /\ store' = store
                 /\ flowlog' = flowlog
                 /\ index' = IF chunk.embedding # <<>>
                             THEN qdrant_upsert(index, name,
                                      vectors_to_upsert(<<chunk>>, faq.input_type),
                                      outcome)
                             ELSE index
                 /\ faq' = [faq EXCEPT !.pc = "save", !.generated_faqs = generated,
                               !.stored = chunk.embedding # <<>> /\ outcome = "ok"]
    /\ chat' = Disturb(chat)
    /\ UNCHANGED <<payload, ingPending, ing, faqPending, faqRetry, requests, putUsed,
                   resolve, tasks, rerun>>

\* (variant) the FAQ list is saved only when its document was stored
faq_post_store_if_stored(st, f) ==
    IF f.stored
    THEN update_session(st, SID,
             [generated_faqs |-> f.generated_faqs, status |-> "ready",
              message |-> <<"FAQs generated and context updated.">>])
    ELSE st

\* FAQGenerationNode.post line 103: the list is saved whatever became of the
\* embedding and of the upsert.
faq_post_store(st, f) ==
    update_session(st, SID,
        [generated_faqs |-> f.generated_faqs, status |-> "ready",
         message |-> <<"FAQs generated and context updated.">>])

\* store_embeddings_in_qdrant lines 118-127 (when the upsert succeeded), then
\* FAQGenerationNode.post line 103.
FAQGenerationNode_post ==
    /\ faq.pc = "save"
    /\ IF ~Readable THEN
           /\ store' = store
           /\ faq' = IdleFaq
           /\ flowlog' = flowlog
       ELSE
           /\ flowlog' = [flowlog EXCEPT !.faq =
                     <<<<"FAQGenerationNode", "default">>>>
                     \o orch_end(create_faq_flow, "FAQGenerationNode", "default")]
           /\ \E st1 \in (IF faq.stored
                          THEN record_namespace(store,
                                   _generate_collection_name(faq.input_type,
                                       faq.input_value, SID))
                          ELSE {store}) :
                store' = faq_post_store(st1, faq)
           /\ faq' = [faq EXCEPT !.pc = "finish"]
    /\ chat' = Disturb(chat)
    /\ UNCHANGED <<index, payload, ingPending, ing, faqPending, faqRetry, requests, putUsed,
                   resolve, tasks, rerun>>

\* run_faq_generation_flow lines 84-98, after faq_flow.run returned.
faq_task_finish ==
    /\ faq.pc = "finish"
    /\ IF ~Readable THEN store' = store
       ELSE store' = update_session(store, SID,
                [status |-> "ready",
                 message |-> <<"FAQs generated and context updated.">>])
    /\ faq' = IdleFaq
    /\ chat' = Disturb(chat)
    /\ UNCHANGED <<index, payload, ingPending, ing, faqPending, faqRetry, requests, putUsed,
                   resolve, flowlog, tasks, rerun>>

\* ------------------------------------------------------- PUT /session/{id}
OtherNamespace == <<"o", "t", "h", "e", "r">>

PutUpdates ==
    {[status |-> "bogus"],
     [context_is_ready |-> FALSE],
     [context_is_ready |-> TRUE],
     [active_namespaces |-> <<>>],
     [active_namespaces |-> <<OtherNamespace>>]}

\* update_session_data: the body is handed to update_session as it is.
update_session_data ==
    /\ requests < MaxRequests
    /\ requests' = requests + 1
    /\ store # NoSession
    /\ Readable
    /\ \E updates \in PutUpdates : store' = update_session(store, SID, updates)
    /\ putUsed' = TRUE
    /\ chat' = Disturb(chat)
    /\ UNCHANGED <<index, payload, ingPending, ing, faqPending, faqRetry, faq, resolve,
                   flowlog, tasks, rerun>>

\* ------------------------------------------------------- POST /chat/{id}
Questions == {"What is it about?", "", "Exit"}

UserEntry(q) == [role |-> "user", content |-> q]
AssistantEntry(a, r) == [role |-> "assistant", content |-> a, resources |-> r]

\* chat_with_content, lines 14-27: the entry checks.
chat_with_content ==
    /\ chat.pc = "idle"
    /\ requests < MaxRequests
    /\ requests' = requests + 1
    /\ \E q \in Questions :
         IF ~Readable THEN
             chat' = [IdleChat EXCEPT !.response = Http(500, "ValidationError"),
                                      !.entry = "unreadable"]
         ELSE IF store = NoSession THEN
             chat' = [IdleChat EXCEPT !.response = Http(404, "Session not found."),
                                      !.entry = "absent"]
         ELSE IF ~store.context_is_ready THEN
             chat' = [IdleChat EXCEPT
                         !.response = Http(400, "Content is not ready for chat."),
                         !.entry = "not_ready"]
         ELSE
             chat' = [IdleChat EXCEPT !.pc = "prep", !.question = q,
                         !.entry = "ready", !.hist0 = store.chat_history]
    /\ UNCHANGED <<store, index, payload, ingPending, ing, faqPending, faqRetry, faq, putUsed,
                   resolve, flowlog, tasks, rerun>>

\* (variant) the except clause also withdraws the readiness flag
chat_except_store_locking(st, e) ==
    IF (IF st = NoSession THEN TRUE ELSE ValidRecord(st))
    THEN update_session(st, SID, [status  |-> "error", context_is_ready |-> FALSE,
                                  message |-> <<UnexpectedPrefix>> \o e])
    ELSE st

\* (variant) the except clause stores the error without its cause
chat_except_store_causeless(st, e) ==
    IF (IF st = NoSession THEN TRUE ELSE ValidRecord(st))
    THEN update_session(st, SID, [status  |-> "error",
                                  message |-> <<UnexpectedPrefix>>])
    ELSE st

\* The except clause of chat_with_content (lines 44-50) entered with cause e:
\* the stored value it leaves.  Its update_session raises in turn on a record
\* that does not validate, and nothing is written.
chat_except_store(st, e) ==
    IF (IF st = NoSession THEN TRUE ELSE ValidRecord(st))
    THEN update_session(st, SID, [status  |-> "error",
                                  message |-> <<UnexpectedPrefix>> \o e])
    ELSE st

\* ChatQueryNode.prep
ChatQueryNode_prep ==
    /\ chat.pc = "prep"
    /\ IF chat.question = "" THEN
           /\ chat' = [chat EXCEPT !.pc = "exec", !.user_query = None,
                          !.chat_history = <<>>, !.user_session_id = ExitId,
                          !.contextless_chat = TRUE]
           /\ store' = store
       ELSE IF ~Readable THEN
           \* get_session raises; so does the except clause's update_session
           /\ chat' = chat_done(chat, Http(500, "ValidationError"))
           /\ store' = store
       ELSE IF store = NoSession THEN
           /\ chat' = [chat EXCEPT !.pc = "exec", !.user_query = chat.question,
                          !.chat_history = <<>>, !.user_session_id = SID,
                          !.contextless_chat = TRUE]
           /\ store' = store
       ELSE
           LET history == Append(store.chat_history, UserEntry(chat.question)) IN
           /\ store' = update_session(store, SID, [chat_history |-> history])
           /\ chat' = [chat EXCEPT !.pc = "exec", !.user_query = chat.question,
                          !.chat_history = history, !.user_session_id = SID,
                          !.contextless_chat = ~store.context_is_ready]
    /\ UNCHANGED <<index, payload, ingPending, ing, faqPending, faqRetry, faq, requests, putUsed,
                   resolve, flowlog, tasks, rerun>>

\* ------------------------------------------------- text of answers
\* An answer is a sequence of text pieces (a concatenation); the empty string
\* is the empty sequence.
Text(t) == <<t>>
EmptyText == <<>>

\* str.lower() on the texts the services return
lower_text(t) ==
    CASE t = "I Cannot Answer that from the context." ->
             "i cannot answer that from the context."
      [] t = "There is No Relevant Context for this." ->
             "there is no relevant context for this."
      [] t = "No relevant context was found in your documents to answer this question." ->
             "no relevant context was found in your documents to answer this question."
      [] t = "It is about TLA." -> "it is about tla."
      [] t = "An internal error occurred during content retrieval." ->
             "an internal error occurred during content retrieval."
      [] t = "Internal error: Vector DB connection failed." ->
             "internal error: vector db connection failed."
      [] t = "I don't have any documents to search for this session. Please upload a PDF or provide a website first." ->
             "i don't have any documents to search for this session. please upload a pdf or provide a website first."
      [] t = "Exit" -> "exit"
      [] OTHER -> t

\* `sub in t` for lower-cased texts t
substring(sub, t) ==
    \/ sub = "cannot answer" /\ t = "i cannot answer that from the context."
    \/ sub = "no relevant context"
         /\ t \in {"there is no relevant context for this.",
                   "no relevant context was found in your documents to answer this question."}

\* `sub in answer.lower()`
contains_lower(answer, sub) ==
    \E i \in 1..Len(answer) : substring(sub, lower_text(answer[i]))

\* ------------------------------------------------- utils/rag_query_engine.py
Scores == {1, 2}
SearchLimit == 3

\* stable sort of scored hits, score descending (list.sort(reverse=True) keeps
\* the order of equal keys)
RECURSIVE insert_sorted(_, _)
insert_sorted(sorted, h) ==
    IF sorted = <<>> THEN <<h>>
    ELSE IF Head(sorted).score >= h.score
         THEN <<Head(sorted)>> \o insert_sorted(Tail(sorted), h)
         ELSE <<h>> \o sorted

RECURSIVE sort_by_score(_)
sort_by_score(hits) ==
    IF hits = <<>> THEN <<>>
    ELSE insert_sorted(sort_by_score(SubSeq(hits, 1, Len(hits) - 1)), hits[Len(hits)])

\* qdrant_client.search(collection_name, query_vector, limit=3): the points of
\* the collection with the scores sc gives them, best first, at most limit.
search(points, sc, limit) ==
    LET hits == [i \in 1..Len(points) |-> [payload |-> points[i], score |-> sc[i]]]
        ranked == sort_by_score(hits)
    IN SubSeq(ranked, 1, IF Len(ranked) < limit THEN Len(ranked) ELSE limit)

\* (variant) the loop ends at the first collection that does not exist
RECURSIVE all_query_results_until_missing(_, _)
all_query_results_until_missing(idx, active_collections) ==
    IF active_collections = <<>> THEN {<<>>}
    ELSE LET name == Head(active_collections)
             rest == all_query_results_until_missing(idx, Tail(active_collections))
         IN IF name \notin DOMAIN idx THEN {<<>>}
            ELSE {search(idx[name], sc, SearchLimit) \o r :
                      sc \in [1..Len(idx[name]) -> Scores], r \in rest}

\* The results the loop over active_collections (lines 54-68) can collect:
\* a collection that does not exist is skipped.
RECURSIVE all_query_results(_, _)
all_query_results(idx, active_collections) ==
    IF active_collections = <<>> THEN {<<>>}
    ELSE LET name == Head(active_collections)
             rest == all_query_results(idx, Tail(active_collections))
         IN IF name \notin DOMAIN idx THEN rest
            ELSE {search(idx[name], sc, SearchLimit) \o r :
                      sc \in [1..Len(idx[name]) -> Scores], r \in rest}

resource_info(hit) == [text_snippet |-> hit.payload.text, source |-> hit.payload.source]

SynthAnswers ==
    {Text("It is about TLA."), EmptyText,
     Text("I Cannot Answer that from the context."),
     Text("There is No Relevant Context for this.")}

NoDocuments == Text("I don't have any documents to search for this session. Please upload a PDF or provide a website first.")
NoContext == Text("No relevant context was found in your documents to answer this question.")
RetrievalError == Text("An internal error occurred during content retrieval.")
NoClient == Text("Internal error: Vector DB connection failed.")

\* query_content(query, user_session_id): the (answer, resources) pairs it can
\* return on the stored value st and the index idx.
query_content(st, idx) ==
    {[kind |-> "no_client", answer |-> NoClient, resources |-> <<>>, scores |-> <<>>],
     [kind |-> "raise", answer |-> RetrievalError, resources |-> <<>>, scores |-> <<>>]}
    \cup
    (IF st # NoSession /\ ~ValidRecord(st) THEN {}
     ELSE LET active_collections ==
                  IF st = NoSession THEN <<>> ELSE st.active_namespaces
          IN IF active_collections = <<>>
             THEN {[kind |-> "no_docs", answer |-> NoDocuments,
                    resources |-> <<>>, scores |-> <<>>]}
             ELSE UNION {
                    LET sorted == sort_by_score(found)
                        resources == [i \in 1..Len(sorted) |-> resource_info(sorted[i])]
                        scores == [i \in 1..Len(sorted) |-> sorted[i].score]
                    IN IF sorted = <<>>
                       THEN {[kind |-> "no_context", answer |-> NoContext,
                              resources |-> <<>>, scores |-> <<>>]}
                       ELSE {[kind |-> "answer", answer |-> a,
                              resources |-> resources, scores |-> scores]
                             : a \in SynthAnswers}
                    : found \in all_query_results(idx, active_collections)})

\* ------------------------------------------------- ChatQueryNode.exec
LLMOutcomes ==
    {[kind |-> "text", text |-> Text("LLM says hello.")],
     [kind |-> "text", text |-> EmptyText],
     [kind |-> "invalid_model", text |-> EmptyText],
     [kind |-> "raise", text |-> EmptyText]}

WebOutcomes == {EmptyText, Text("Web says TLA.")}
WebMarker == "(Web Search Result) "
Web(w) == [called |-> TRUE, text |-> w]
\* the source id of the synthetic resource (a text, as every source id is)
WebSearchSource == Text("web_search")
web_resource(w) == [source |-> WebSearchSource, text_snippet |-> w]

InvalidModelAnswer == Text("Invalid model specified: None. Please check the model name.")
LLMErrorAnswer == <<"Error calling LLM: ", "timeout">>
FallbackErrorAnswer == Text("I'm sorry, I encountered an error and couldn't find an answer.")

\* line 133: the vector-path answer is insufficient
insufficient(answer) ==
    \/ answer = EmptyText
    \/ contains_lower(answer, "cannot answer")
    \/ contains_lower(answer, "no relevant context")

ExecResult(answer, resources, action, calls, vec, web, llm) ==
    [answer |-> answer, resources |-> resources, action |-> action,
     calls |-> calls, vec |-> vec, web |-> web, llm |-> llm]

\* exec lines 76-79: nothing to answer
exec_exit == {ExecResult(EmptyText, <<>>, "exit", <<>>, NoVec, NoWeb, NoLLM)}

\* exec lines 103-121: the contextless branch
exec_contextless ==
    {CASE r.kind = "text" ->
              ExecResult(r.text, <<>>, "default", <<"call_llm">>, NoVec, NoWeb, r)
       [] r.kind = "invalid_model" ->
              ExecResult(InvalidModelAnswer, <<>>, "invalid_model", <<"call_llm">>,
                         NoVec, NoWeb, r)
       [] OTHER ->
              ExecResult(LLMErrorAnswer, <<>>, "error", <<"call_llm">>,
                         NoVec, NoWeb, r)
     : r \in LLMOutcomes}

\* (variant) the synthetic resource is put in front of the retrieved ones
exec_fallback_web_first(vec) ==
    {ExecResult(<<WebMarker>> \o w, <<web_resource(w)>> \o vec.resources,
                "default", <<"query_vector_db", "web_search">>, vec, Web(w), NoLLM)
     : w \in WebOutcomes \ {EmptyText}}
    \cup
    {CASE r.kind = "text" ->
              ExecResult(r.text, vec.resources, "default",
                         <<"query_vector_db", "web_search", "call_llm">>,
                         vec, Web(EmptyText), r)
       [] OTHER ->
              ExecResult(FallbackErrorAnswer, vec.resources, "error",
                         <<"query_vector_db", "web_search", "call_llm">>,
                         vec, Web(EmptyText), r)
     : r \in LLMOutcomes}

\* exec lines 133-153: web search, then the direct completion
exec_fallback(vec) ==
    {ExecResult(<<WebMarker>> \o w,
                Append(vec.resources, web_resource(w)),
                "default", <<"query_vector_db", "web_search">>, vec, Web(w), NoLLM)
     : w \in WebOutcomes \ {EmptyText}}
    \cup
    {CASE r.kind = "text" ->
              ExecResult(r.text, vec.resources, "default",
                         <<"query_vector_db", "web_search", "call_llm">>,
                         vec, Web(EmptyText), r)
       [] OTHER ->
              ExecResult(FallbackErrorAnswer, vec.resources, "error",
                         <<"query_vector_db", "web_search", "call_llm">>,
                         vec, Web(EmptyText), r)
     : r \in LLMOutcomes}

\* exec lines 122-156: the context branch
exec_context(st, idx) ==
    UNION {IF insufficient(vec.answer) THEN exec_fallback(vec)
           ELSE {ExecResult(vec.answer, vec.resources, "default",
                            <<"query_vector_db">>, vec, NoWeb, NoLLM)}
           : vec \in query_content(st, idx)}

\* What ChatQueryNode.exec(prep_res, shared) can return.  shared never holds a
\* "model" key (it is a dump of the record plus user_query), so lines 81-95 do
\* nothing.
exec_results(c, st, idx) ==
    IF c.user_query = None \/ lower_text(c.user_query) = "exit" THEN exec_exit
    ELSE IF c.contextless_chat THEN exec_contextless
    ELSE exec_context(st, idx)

ChatQueryNode_exec ==
    /\ chat.pc = "exec"
    /\ \E res \in exec_results(chat, store, index) :
         chat' = [chat EXCEPT !.pc = "post", !.answer = res.answer,
                     !.resources = res.resources, !.action = res.action,
                     !.calls = res.calls, !.vec = res.vec, !.web = res.web,
                     !.llm = res.llm]
    /\ UNCHANGED <<store, index, payload, ingPending, ing, faqPending, faqRetry, faq,
                   requests, putUsed, resolve, flowlog, tasks, rerun>>

\* chat_with_content line 31, chat_node.exec(prep_res): ChatQueryNode.exec takes
\* (prep_res, shared), so the call raises TypeError before the body runs and no
\* service is consulted; the except clause records the error and answers with
\* the generic failure.  vec, web and llm keep what the services would have
\* answered to the call.
chat_exec_call ==
    /\ chat.pc = "exec"
    /\ store' = chat_except_store(store, ExecTypeError)
    /\ \E res \in exec_results(chat, store, index) :
         chat' = chat_done([chat EXCEPT !.vec = res.vec, !.web = res.web,
                                        !.llm = res.llm],
                           Http(500, GenericFailure))
    /\ UNCHANGED <<index, payload, ingPending, ing, faqPending, faqRetry, faq, requests, putUsed,
                   resolve, flowlog, tasks, rerun>>

\* (variant) post appends the assistant entry whatever the answer is
post_store_always_appends(st, c) ==
    IF c.action = "exit" THEN st
    ELSE IF c.action = "error"
    THEN update_session(st, c.user_session_id,
                        [status |-> "error", message |-> c.answer])
    ELSE update_session(st, c.user_session_id,
             [chat_history |-> Append(c.chat_history,
                                      AssistantEntry(c.answer, c.resources)),
              status |-> "ready"])

\* ChatQueryNode.post: the stored value it leaves (st is readable)
post_store(st, c) ==
    IF c.action = "exit" THEN st
    ELSE IF c.action = "error"
    THEN update_session(st, c.user_session_id,
                        [status |-> "error", message |-> c.answer])
    ELSE update_session(st, c.user_session_id,
             [chat_history |-> IF c.answer # EmptyText
                               THEN Append(c.chat_history,
                                           AssistantEntry(c.answer, c.resources))
                               ELSE c.chat_history,
              current_question |-> c.user_query,
              current_answer |-> c.answer,
              current_answer_resources |-> c.resources,
              status |-> "ready"])

\* ChatQueryNode.post and chat_with_content lines 33-52.
ChatQueryNode_post ==
    /\ chat.pc = "post"
    /\ IF chat.action = "exit" THEN
           \* ChatResponse(answer=None, resources=None) does not validate
           /\ store' = store
           /\ chat' = chat_done(chat, Http(500, "ValidationError"))
       ELSE IF ~Readable THEN
           /\ store' = store
           /\ chat' = chat_done(chat, Http(500, "ValidationError"))
       ELSE IF chat.action = "error" THEN
           \* HTTPException(500, detail=error_message) is raised inside the try
           /\ store' = chat_except_store(post_store(store, chat),
                                         <<"500: ">> \o chat.answer)
           /\ chat' = chat_done(chat, Http(500, GenericFailure))
       ELSE
           /\ store' = post_store(store, chat)
           /\ chat' = chat_done(chat, ChatResponse(chat.answer, chat.resources))
    /\ UNCHANGED <<index, payload, ingPending, ing, faqPending, faqRetry, faq, requests,
                   putUsed, resolve, flowlog, tasks, rerun>>

\* ---------------------------------------- workers running at the same time
\* The deliveries of the ingestion message, the FAQ request with its task and
\* the chat requests run on workers of their own, and update_session is a get
\* followed by a set (session.py lines 65-68) between which the calls of the
\* other workers land.  tasks maps every worker to its position (pc), the
\* record the update_session in progress has read (session), the updates it
\* has still to make one after the other (todo), its position after them
\* (next) and what store_embeddings_in_qdrant returned to it (success).
IngestionWorkers == {"ingestion", "redelivery"}
ChatWorkers == {"chat", "chat2"}
Workers == IngestionWorkers \cup ChatWorkers \cup {"faq"}

QueuedTask ==
    [pc |-> "queued", session |-> NoSession, todo |-> <<>>, next |-> "done",
     success |-> None]

\* every request and delivery is still to come
QueuedTasks == [w \in Workers |-> QueuedTask]

\* no worker beside the task processes of Spec
NoTasks == <<>>

\* Requests being handled and task runs in progress at the same time.
MaxRunning == 2

running == {w \in Workers : tasks[w].pc \notin {"queued", "dispatched", "done"}}

slot_free == Cardinality(running) < MaxRunning

\* request.question of the two chat requests
worker_question(w) == IF w = "chat" THEN "What is it about?" ELSE "Exit"

\* the collection every worker of the session resolves: the ingestion runs
\* from original_filename or the URL, the FAQ run from the stored input_value
worker_collection_name ==
    _generate_collection_name(payload.input_type, payload.input_value, SID)

\* embedded_chunks handed to store_embeddings_in_qdrant by worker w
worker_embedded_chunks(w) ==
    IF w = "faq"
    THEN <<[text |-> combined_faq_text(Faqs),
            embedding |-> Embedding(combined_faq_text(Faqs)),
            source |-> payload.input_value]>>
    ELSE process_and_embed_yaml(
             IF payload.input_type = "pdf" THEN TempPdfPath ELSE payload.input_value,
             [i \in 1..Len(Windows) |-> TRUE])

error_update(message) == [status |-> "error", message |-> <<message>>]

faq_processing_update ==
    [status |-> "faq_processing", message |-> <<"FAQ generation in progress.">>]

\* run_faq_generation_flow lines 85-90
faq_finish_update ==
    [status |-> "ready", message |-> <<"FAQs generated and context updated.">>]

\* ContentProcessingNode.post lines 94-99
ready_update(w) ==
    [status |-> "ready", context_is_ready |-> TRUE,
     message |-> <<"Content processed and ready for chat.">>,
     processed_content |-> combined_processed_content(worker_embedded_chunks(w))]

\* The updates the caller of store_embeddings_in_qdrant makes after it
\* returned success: ContentProcessingNode.post lines 89-99; FAQGenerationNode
\* post line 103 (whatever was returned) and then the task, lines 85-90.
after_store(w, success) ==
    IF w = "faq"
    THEN <<[generated_faqs |-> Faqs, status |-> "ready",
            message |-> <<"FAQs generated and context updated.">>],
           faq_finish_update>>
    ELSE IF success
         THEN <<ready_update(w)>>
         ELSE <<error_update("Failed to store embeddings in vector DB.")>>

\* a worker picks up a delivery of the ingestion message: InputNode, then
\* ContentProcessingNode up to the embedding. got: content was acquired and
\* embedded.
worker_run_ingestion_flow(w) ==
    /\ w \in IngestionWorkers
    /\ tasks[w].pc = "queued"
    /\ slot_free
    /\ \E got \in BOOLEAN :
         tasks' = [tasks EXCEPT ![w] =
             IF got THEN [@ EXCEPT !.pc = "get_collection"]
             ELSE [@ EXCEPT !.pc = "get",
                      !.todo = <<error_update(
                          IF payload.input_type = "website"
                          THEN "Failed to crawl website."
                          ELSE "Failed to extract text from PDF.")>>]]
    /\ UNCHANGED <<store, index, payload, ingPending, ing, faqPending, faq,
                   faqRetry, chat, requests, putUsed, resolve, flowlog, rerun>>

\* store_embeddings_in_qdrant line 97: get_collection raises when the
\* collection does not exist
worker_get_collection(w) ==
    /\ tasks[w].pc = "get_collection"
    /\ tasks' = [tasks EXCEPT ![w].pc =
                    IF Exists(worker_collection_name) THEN "upsert"
                    ELSE "create_collection"]
    /\ UNCHANGED <<store, index, payload, ingPending, ing, faqPending, faq,
                   faqRetry, chat, requests, putUsed, resolve, flowlog, rerun>>

\* (variant) creating a collection that exists is no error
create_collection_if_absent(idx, name) == TRUE

\* create_collection(name): whether the index accepts the request; it
\* answers a request for a name that exists with an error (409)
create_collection_accepted(idx, name) == name \notin DOMAIN idx

\* lines 99-108: create_collection; when it raises, line 129 catches and
\* store_embeddings_in_qdrant returns False
worker_create_collection(w) ==
    /\ tasks[w].pc = "create_collection"
    /\ IF create_collection_accepted(index, worker_collection_name) THEN
           /\ index' = IF Exists(worker_collection_name) THEN index
                       ELSE index @@ (worker_collection_name :> <<>>)
           /\ tasks' = [tasks EXCEPT ![w].pc = "upsert"]
       ELSE
           /\ index' = index
           /\ tasks' = [tasks EXCEPT ![w] =
                  [@ EXCEPT !.pc = "get", !.success = "False",
                            !.todo = after_store(w, FALSE)]]
    /\ UNCHANGED <<store, payload, ingPending, ing, faqPending, faq,
                   faqRetry, chat, requests, putUsed, resolve, flowlog, rerun>>

\* lines 110-114: upsert(wait=True)
worker_upsert(w) ==
    /\ tasks[w].pc = "upsert"
    /\ index' = [index EXCEPT ![worker_collection_name] = @ \o
                    vectors_to_upsert(worker_embedded_chunks(w), payload.input_type)]
    /\ tasks' = [tasks EXCEPT ![w].pc = "get_session"]
    /\ UNCHANGED <<store, payload, ingPending, ing, faqPending, faq,
                   faqRetry, chat, requests, putUsed, resolve, flowlog, rerun>>

\* lines 118-127: the namespaces are read, the name is added and
\* update_session called with the list; True is returned
worker_get_session(w) ==
    /\ tasks[w].pc = "get_session"
    /\ \E ns \in namespaces_with(store.active_namespaces, worker_collection_name) :
         tasks' = [tasks EXCEPT ![w] =
             [@ EXCEPT !.pc = "get", !.success = "True",
                       !.todo = <<[active_namespaces |-> ns]>>
                                \o after_store(w, TRUE)]]
    /\ UNCHANGED <<store, index, payload, ingPending, ing, faqPending, faq,
                   faqRetry, chat, requests, putUsed, resolve, flowlog, rerun>>

\* update_session line 65: the record is read
worker_update_session_get(w) ==
    /\ tasks[w].pc = "get"
    /\ tasks' = [tasks EXCEPT ![w] = [@ EXCEPT !.pc = "set", !.session = store]]
    /\ UNCHANGED <<store, index, payload, ingPending, ing, faqPending, faq,
                   faqRetry, chat, requests, putUsed, resolve, flowlog, rerun>>

\* update_session lines 66-69: the copy of the record read, with the updates,
\* replaces the stored one
worker_update_session_set(w) ==
    /\ tasks[w].pc = "set"
    /\ store' = IF tasks[w].session = NoSession THEN store
                ELSE model_copy(tasks[w].session, Head(tasks[w].todo))
    /\ tasks' = [tasks EXCEPT ![w] =
           [@ EXCEPT !.pc = IF Len(tasks[w].todo) > 1 THEN "get" ELSE tasks[w].next,
                     !.next = IF Len(tasks[w].todo) > 1 THEN tasks[w].next ELSE "done",
                     !.session = NoSession,
                     !.todo = Tail(tasks[w].todo)]]
    /\ UNCHANGED <<index, payload, ingPending, ing, faqPending, faq,
                   faqRetry, chat, requests, putUsed, resolve, flowlog, rerun>>

\* generate_faq (faq.py lines 18-32) on a session it finds ready
worker_generate_faq ==
    /\ tasks["faq"].pc = "queued"
    /\ slot_free
    /\ store.context_is_ready
    /\ tasks' = [tasks EXCEPT !["faq"] =
           [@ EXCEPT !.pc = "get", !.todo = <<faq_processing_update>>,
                     !.next = "dispatched"]]
    /\ UNCHANGED <<store, index, payload, ingPending, ing, faqPending, faq,
                   faqRetry, chat, requests, putUsed, resolve, flowlog, rerun>>

\* run_faq_generation_flow lines 61-77 and FAQGenerationNode.prep line 23
worker_run_faq_generation_flow ==
    /\ tasks["faq"].pc = "dispatched"
    /\ slot_free
    /\ tasks' = [tasks EXCEPT !["faq"] =
           IF store.context_is_ready
           THEN [@ EXCEPT !.pc = "get", !.todo = <<faq_processing_update>>,
                          !.next = "generate_faqs"]
           ELSE [@ EXCEPT !.pc = "get",
                          !.todo = <<error_update("Content not ready for FAQ generation.")>>]]
    /\ UNCHANGED <<store, index, payload, ingPending, ing, faqPending, faq,
                   faqRetry, chat, requests, putUsed, resolve, flowlog, rerun>>

\* FAQGenerationNode.exec and post up to store_embeddings_in_qdrant
worker_generate_faqs ==
    /\ tasks["faq"].pc = "generate_faqs"
    /\ \E generated \in GenerateOutcomes :
         tasks' = [tasks EXCEPT !["faq"] =
             IF generated = <<>>
             THEN [@ EXCEPT !.pc = "get",
                      !.todo = <<error_update("Failed to generate FAQs."),
                                 faq_finish_update>>]
             ELSE [@ EXCEPT !.pc = "get_collection"]]
    /\ UNCHANGED <<store, index, payload, ingPending, ing, faqPending, faq,
                   faqRetry, chat, requests, putUsed, resolve, flowlog, rerun>>

\* chat_with_content lines 14-25 on a session it finds ready
worker_chat_with_content(w) ==
    /\ w \in ChatWorkers
    /\ tasks[w].pc = "queued"
    /\ slot_free
    /\ store.context_is_ready
    /\ tasks' = [tasks EXCEPT ![w].pc = "prep"]
    /\ UNCHANGED <<store, index, payload, ingPending, ing, faqPending, faq,
                   faqRetry, chat, requests, putUsed, resolve, flowlog, rerun>>

\* ChatQueryNode.prep lines 40-58: the history read, with the user entry, is
\* what update_session is given; then line 31 of chat_with_content raises and
\* line 46 stores the error.
worker_ChatQueryNode_prep(w) ==
    /\ tasks[w].pc = "prep"
    /\ tasks' = [tasks EXCEPT ![w] =
           [@ EXCEPT !.pc = "get",
                     !.todo = <<[chat_history |->
                                    Append(store.chat_history,
                                           UserEntry(worker_question(w)))],
                                [status |-> "error",
                                 message |-> <<UnexpectedPrefix>> \o ExecTypeError]>>]]
    /\ UNCHANGED <<store, index, payload, ingPending, ing, faqPending, faq,
                   faqRetry, chat, requests, putUsed, resolve, flowlog, rerun>>

\* ------------------------------------------------- a task run repeated
\* What the services answer to one run of the ingestion task: whether the
\* temporary file was written, whether content was acquired, which windows
\* were embedded, and what the index did.
RunOutcomes ==
    {[wrote |-> w, got |-> g, ok |-> e, outcome |-> o] :
        w \in BOOLEAN, g \in BOOLEAN, e \in EmbedOutcomes, o \in QdrantOutcomes}

\* rerun holds the outcomes both runs meet, the number of runs that have
\* ended and the record stored when the first one ended; it is empty where
\* no run is repeated that way.
NoRerun == <<>>

\* the run has returned when the task is idle again
run_returned ==
    rerun' = IF ing'.pc = "idle"
             THEN [rerun EXCEPT !.runs = @ + 1,
                                !.first = IF rerun.runs = 0 THEN store' ELSE @]
             ELSE rerun

rerun_run_ingestion_flow ==
    /\ run_ingestion_flow_with(rerun.outcomes.wrote)
    /\ run_returned

rerun_ContentProcessingNode_exec ==
    /\ ContentProcessingNode_exec_with(rerun.outcomes.got, rerun.outcomes.ok)
    /\ run_returned

rerun_ingest_store_embeddings ==
    /\ ingest_store_embeddings_with(rerun.outcomes.outcome)
    /\ run_returned

rerun_ingest_record_namespace ==
    /\ ingest_record_namespace_step
    /\ run_returned

rerun_ContentProcessingNode_post ==
    /\ ContentProcessingNode_post_step
    /\ run_returned

\* the message is delivered again once the first run has returned
rerun_redeliver_ingestion ==
    /\ rerun.runs = 1
    /\ ing.pc = "idle"
    /\ redeliver_ingestion_step
    /\ UNCHANGED rerun

\* ------------------------------------------------- PUT requests at once
\* PUT /session/{id} with update_session cut at its read of the store.  tasks
\* maps every caller to its position (pc), the body of its request (updates),
\* the record update_session has read (session) and the response.
PutCallers == {"put", "put2"}

IdlePut ==
    [pc |-> "idle", updates |-> <<>>, session |-> NoSession, response |-> NoResponse]

\* bodies of the request: the examples of update_session_data (lines 22-26),
\* a key that is no field of SessionData, and the bodies of PutUpdates
PutBodies ==
    PutUpdates \cup
    {[chat_history |-> <<>>],
     [status |-> "ready", message |-> <<"Manually set to ready">>],
     [status |-> "error", updated_at |-> <<"2025">>]}

\* update_session_data line 21: the request arrives
put_update_session_data(c) ==
    /\ tasks[c].pc = "idle"
    /\ \E updates \in PutBodies :
         tasks' = [tasks EXCEPT ![c] = [@ EXCEPT !.pc = "get", !.updates = updates]]
    /\ UNCHANGED <<store, index, payload, ingPending, ing, faqPending, faq,
                   faqRetry, chat, requests, putUsed, resolve, flowlog, rerun>>

\* update_session line 65 (get_session, lines 58-62), and lines 70 and 32-34
\* when there is no record: None is returned and the caller answered 404
put_get_session(c) ==
    /\ tasks[c].pc = "get"
    /\ tasks' = [tasks EXCEPT ![c] =
           IF ~Readable
           THEN [@ EXCEPT !.pc = "done", !.response = Http(500, "ValidationError")]
           ELSE IF store = NoSession
           THEN [@ EXCEPT !.pc = "done", !.response = Http(404, "Session not found.")]
           ELSE [@ EXCEPT !.pc = "set", !.session = store]]
    /\ UNCHANGED <<store, index, payload, ingPending, ing, faqPending, faq,
                   faqRetry, chat, requests, putUsed, resolve, flowlog, rerun>>

\* update_session lines 67-69 and update_session_data line 36: the copy with
\* the updates is stored and returned
put_set(c) ==
    /\ tasks[c].pc = "set"
    /\ store' = model_copy(tasks[c].session, tasks[c].updates)
    /\ tasks' = [tasks EXCEPT ![c] =
           [@ EXCEPT !.pc = "done", !.response = [code |-> 200, body |-> store']]]
    /\ UNCHANGED <<index, payload, ingPending, ing, faqPending, faq,
                   faqRetry, chat, requests, putUsed, resolve, flowlog, rerun>>

\* ------------------------------------------------------------ specification
Init ==
    /\ store = NoSession
    /\ index = <<>>
    /\ payload = NoPayload
    /\ ingPending = 0
    /\ ing = IdleIngRec
    /\ faqPending = 0
    /\ faq = IdleFaq
    /\ faqRetry = <<>>
    /\ chat = IdleChat
    /\ requests = 0
    /\ putUsed = FALSE
    /\ resolve = NoResolve
    /\ flowlog = NoRuns
    /\ tasks = NoTasks
    /\ rerun = NoRerun

Next ==
    \/ ingest_content
    \/ run_ingestion_flow
    \/ redeliver_ingestion
    \/ ContentProcessingNode_exec
    \/ ingest_store_embeddings
    \/ ingest_record_namespace
    \/ ContentProcessingNode_post
    \/ generate_faq
    \/ generate_faq_rejected
    \/ run_faq_generation_flow
    \/ run_faq_generation_flow_retry
    \/ FAQGenerationNode_prep
    \/ FAQGenerationNode_exec
    \/ FAQGenerationNode_post
    \/ faq_task_finish
    \/ update_session_data
    \/ chat_with_content
    \/ ChatQueryNode_prep
    \/ chat_exec_call

Spec == Init /\ [][Next]_vars

\* The same system with line 31 of chat_with_content handing ChatQueryNode.exec
\* both arguments of the signature it declares, so that the body of exec and
\* post run.
NextNode ==
    \/ ingest_content
    \/ run_ingestion_flow
    \/ redeliver_ingestion
    \/ ContentProcessingNode_exec
    \/ ingest_store_embeddings
    \/ ingest_record_namespace
    \/ ContentProcessingNode_post
    \/ generate_faq
    \/ generate_faq_rejected
    \/ run_faq_generation_flow
    \/ run_faq_generation_flow_retry
    \/ FAQGenerationNode_prep
    \/ FAQGenerationNode_exec
    \/ FAQGenerationNode_post
    \/ faq_task_finish
    \/ update_session_data
    \/ chat_with_content
    \/ ChatQueryNode_prep
    \/ ChatQueryNode_exec
    \/ ChatQueryNode_post

SpecNode == Init /\ [][NextNode]_vars

\* ------------------------------------------------ the resolvers applied
\* The two resolvers applied to arguments drawn from ResolveTypes,
\* ResolveSources and ResolveIds, the storage-path one a second time.
InitResolve ==
    /\ store = NoSession
    /\ index = <<>>
    /\ payload = NoPayload
    /\ ingPending = 0
    /\ ing = IdleIngRec
    /\ faqPending = 0
    /\ faq = IdleFaq
    /\ faqRetry = <<>>
    /\ chat = IdleChat
    /\ requests = 0
    /\ putUsed = FALSE
    /\ flowlog = NoRuns
    /\ tasks = NoTasks
    /\ rerun = NoRerun
    /\ resolve \in {[NoResolve EXCEPT !.input_type = t, !.source = src,
                                      !.user_session_id = id] :
                       t \in ResolveTypes, src \in ResolveSources, id \in ResolveIds}

resolve_storage ==
    /\ resolve.storage = NotResolved
    /\ resolve' = [resolve EXCEPT !.storage =
                       _generate_collection_name(resolve.input_type,
                           resolve.source, resolve.user_session_id)]
    /\ UNCHANGED <<store, index, payload, ingPending, ing, faqPending, faq,
                   faqRetry, chat, requests, putUsed, flowlog, tasks, rerun>>

resolve_storage_again ==
    /\ resolve.storage # NotResolved
    /\ resolve.again = NotResolved
    /\ resolve' = [resolve EXCEPT !.again =
                       _generate_collection_name(resolve.input_type,
                           resolve.source, resolve.user_session_id)]
    /\ UNCHANGED <<store, index, payload, ingPending, ing, faqPending, faq,
                   faqRetry, chat, requests, putUsed, flowlog, tasks, rerun>>

resolve_query ==
    /\ resolve.query = NotResolved
    /\ resolve' = [resolve EXCEPT !.query =
                       query_generate_collection_name(resolve.input_type,
                           resolve.source, resolve.user_session_id)]
    /\ UNCHANGED <<store, index, payload, ingPending, ing, faqPending, faq,
                   faqRetry, chat, requests, putUsed, flowlog, tasks, rerun>>

NextResolve ==
    \/ resolve_storage
    \/ resolve_storage_again
    \/ resolve_query

SpecResolve == InitResolve /\ [][NextResolve]_vars

\* ------------------------------------------------ workers at the same time
\* The session POST /ingest has just created and the message it dispatched,
\* with a second delivery of that message, a FAQ request and two chat
\* requests to come.
RaceInputs == {inp \in IngestInputs : inp.input_value # <<>>}

InitRace ==
    /\ \E inp \in RaceInputs :
         /\ store = create_session(inp.input_type, inp.input_value)
         /\ payload = inp
    /\ index = <<>>
    /\ ingPending = 0
    /\ ing = IdleIngRec
    /\ faqPending = 0
    /\ faq = IdleFaq
    /\ faqRetry = <<>>
    /\ chat = IdleChat
    /\ requests = 1
    /\ putUsed = FALSE
    /\ resolve = NoResolve
    /\ flowlog = NoRuns
    /\ tasks = QueuedTasks
    /\ rerun = NoRerun

NextRace ==
    \/ \E w \in Workers : worker_run_ingestion_flow(w)
    \/ \E w \in Workers : worker_get_collection(w)
    \/ \E w \in Workers : worker_create_collection(w)
    \/ \E w \in Workers : worker_upsert(w)
    \/ \E w \in Workers : worker_get_session(w)
    \/ \E w \in Workers : worker_update_session_get(w)
    \/ \E w \in Workers : worker_update_session_set(w)
    \/ worker_generate_faq
    \/ worker_run_faq_generation_flow
    \/ worker_generate_faqs
    \/ \E w \in Workers : worker_chat_with_content(w)
    \/ \E w \in Workers : worker_ChatQueryNode_prep(w)

SpecRace == InitRace /\ [][NextRace]_vars

\* ------------------------------------------------ a task run repeated
\* The session POST /ingest has just created, its message dispatched, and
\* the outcomes the run and its repetition are to meet.
InitRerun ==
    /\ \E inp \in IngestInputs :
         /\ store = create_session(inp.input_type, inp.input_value)
         /\ payload = inp
    /\ index = <<>>
    /\ ingPending = 1
    /\ ing = IdleIngRec
    /\ faqPending = 0
    /\ faq = IdleFaq
    /\ faqRetry = <<>>
    /\ chat = IdleChat
    /\ requests = 1
    /\ putUsed = FALSE
    /\ resolve = NoResolve
    /\ flowlog = NoRuns
    /\ tasks = NoTasks
    /\ rerun \in {[outcomes |-> o, runs |-> 0, first |-> NoSession] :
                     o \in RunOutcomes}

NextRerun ==
    \/ rerun_run_ingestion_flow
    \/ rerun_ContentProcessingNode_exec
    \/ rerun_ingest_store_embeddings
    \/ rerun_ingest_record_namespace
    \/ rerun_ContentProcessingNode_post
    \/ rerun_redeliver_ingestion

SpecRerun == InitRerun /\ [][NextRerun]_vars

\* ------------------------------------------------ the FAQ task retried
\* The session an ingestion run has made ready, FAQ requests to come; the
\* store fails the task in either way.
ReadySession(inp) ==
    LET name == _generate_collection_name(inp.input_type, inp.input_value, SID)
        chunks == process_and_embed_yaml(
                      IF inp.input_type = "pdf" THEN TempPdfPath ELSE inp.input_value,
                      [i \in 1..Len(Windows) |-> TRUE])
        stored == update_session(create_session(inp.input_type, inp.input_value),
                      SID, [active_namespaces |-> <<name>>])
        ready == update_session(stored, SID,
                      [status |-> "ready", context_is_ready |-> TRUE,
                       message |-> <<"Content processed and ready for chat.">>,
                       processed_content |-> combined_processed_content(chunks)])
    IN [store |-> ready,
        index |-> name :> vectors_to_upsert(chunks, inp.input_type)]

InitRetry ==
    /\ \E inp \in RaceInputs :
         /\ store = ReadySession(inp).store
         /\ index = ReadySession(inp).index
         /\ payload = inp
    /\ ingPending = 0
    /\ ing = IdleIngRec
    /\ faqPending = 0
    /\ faq = IdleFaq
    /\ faqRetry = <<>>
    /\ chat = IdleChat
    /\ requests = 1
    /\ putUsed = FALSE
    /\ resolve = NoResolve
    /\ flowlog = NoRuns
    /\ tasks = NoTasks
    /\ rerun = NoRerun

retry_run_faq_generation_flow == run_faq_generation_flow_on(StoreFaultsRetry)

retry_run_faq_generation_flow_retry == run_faq_generation_flow_retry_on(StoreFaultsRetry)

NextRetry ==
    \/ generate_faq
    \/ retry_run_faq_generation_flow
    \/ retry_run_faq_generation_flow_retry
    \/ FAQGenerationNode_prep
    \/ FAQGenerationNode_exec
    \/ FAQGenerationNode_post
    \/ faq_task_finish

SpecRetry == InitRetry /\ [][NextRetry]_vars

\* ------------------------------------------------ PUT requests at once
\* No record, the record POST /ingest has just created or the record of a
\* session made ready; two PUT requests to come.
InitUpdate ==
    /\ \E inp \in RaceInputs :
         /\ store \in {NoSession, create_session(inp.input_type, inp.input_value),
                       ReadySession(inp).store}
         /\ payload = inp
    /\ index = <<>>
    /\ ingPending = 0
    /\ ing = IdleIngRec
    /\ faqPending = 0
    /\ faq = IdleFaq
    /\ faqRetry = <<>>
    /\ chat = IdleChat
    /\ requests = 1
    /\ putUsed = FALSE
    /\ resolve = NoResolve
    /\ flowlog = NoRuns
    /\ tasks = [c \in PutCallers |-> IdlePut]
    /\ rerun = NoRerun

NextUpdate ==
    \/ \E c \in PutCallers : put_update_session_data(c)
    \/ \E c \in PutCallers : put_get_session(c)
    \/ \E c \in PutCallers : put_set(c)

SpecUpdate == InitUpdate /\ [][NextUpdate]_vars

\* ------------------------------------------------ a query over namespaces
\* A session made ready whose message was delivered twice (its collection
\* holds the points of both runs), the collection of another session, and a
\* record whose active_namespaces a PUT has set to a list of names: the
\* session's own, the other session's, and one that names no collection.
GoneNamespace == <<"g", "o", "n", "e">>
OtherSource == <<"h", ":", "/", "/", "o", ".", "c", "o">>

OtherPoints ==
    vectors_to_upsert(
        <<[source |-> OtherSource, text |-> <<"o1">>, embedding |-> Embedding(<<"o1">>)],
          [source |-> OtherSource, text |-> <<"o2">>, embedding |-> Embedding(<<"o2">>)]>>,
        "website")

QueryNamespaces(name) ==
    {<<name>>, <<name, OtherNamespace>>, <<OtherNamespace, name>>,
     <<GoneNamespace, name>>, <<name, GoneNamespace, OtherNamespace>>,
     <<GoneNamespace>>}

InitQuery ==
    /\ \E inp \in RaceInputs :
         LET name == _generate_collection_name(inp.input_type, inp.input_value, SID)
             own == ReadySession(inp).index[name]
         IN /\ payload = inp
            /\ index = (name :> (own \o own)) @@ (OtherNamespace :> OtherPoints)
            /\ \E ns \in QueryNamespaces(name) :
                 store = update_session(ReadySession(inp).store, SID,
                                        [active_namespaces |-> ns])
    /\ ingPending = 0
    /\ ing = IdleIngRec
    /\ faqPending = 0
    /\ faq = IdleFaq
    /\ faqRetry = <<>>
    /\ chat = IdleChat
    /\ requests = MaxRequests - 1
    /\ putUsed = TRUE
    /\ resolve = NoResolve
    /\ flowlog = NoRuns
    /\ tasks = NoTasks
    /\ rerun = NoRerun

NextQuery ==
    \/ chat_with_content
    \/ ChatQueryNode_prep
    \/ ChatQueryNode_exec
    \/ ChatQueryNode_post

SpecQuery == InitQuery /\ [][NextQuery]_vars

\* ---------------------------------------------------------------- properties
\* ------------------------------------------------------------- properties
\* C1: in every reachable state of a session record, after any sequence of
\* create, ingestion-task, FAQ-request, FAQ-task, chat and put operations,
\* status is one of processing, faq_processing, ready, error.
C1_StatusInLiteral ==
    store # NoSession => store.status \in StatusLiteral

\* C2: with no put on the session, every stored record with
\* context_is_ready = true has a non-empty active_namespaces.
C2_ReadyImpliesNamespace ==
    (store # NoSession /\ ~putUsed /\ store.context_is_ready)
        => store.active_namespaces # <<>>

\* C2 happens: an ingestion run made the session ready and recorded its
\* collection, and no put was made.
C2_Witness ==
    /\ store # NoSession
    /\ ~putUsed
    /\ store.context_is_ready
    /\ store.status = "ready"
    /\ store.active_namespaces # <<>>
    /\ \A i \in 1..Len(store.active_namespaces) : store.active_namespaces[i] \in DOMAIN index

\* C3: a chat call on an existing session whose context_is_ready is false is
\* answered through the direct completion only: the completion service is the
\* one service called and the resource list returned is empty.
C3_ContextlessAnswered ==
    (chat.pc = "idle" /\ chat.entry = "not_ready")
        => /\ chat.response.code = 200
           /\ chat.response.resources = <<>>
           /\ chat.calls = <<"call_llm">>

\* C4: a chat call made alone on a context-ready session, whose vector search
\* returns at least one chunk and an answer that is neither empty nor marked
\* insufficient, returns exactly that answer, and the web search is not invoked.
C4_VectorAnswerReturned ==
    (/\ chat.pc = "idle"
     /\ chat.entry = "ready"
     /\ chat.alone
     /\ chat.vec.kind = "answer"
     /\ Len(chat.vec.resources) >= 1
     /\ ~insufficient(chat.vec.answer))
        => /\ chat.response.code = 200
           /\ chat.response.answer = chat.vec.answer
           /\ \A i \in 1..Len(chat.calls) : chat.calls[i] # "web_search"

\* C5: in a chat call on a context-ready session whose vector search finds zero
\* chunks (no active namespace, every namespace missing or empty), the web
\* search is invoked, and the direct completion is called only after the web
\* search returned empty.
C5_ZeroChunksEscalate ==
    (chat.pc \in {"post", "idle"} /\ chat.vec.kind \in {"no_docs", "no_context"})
        => /\ \E i \in 1..Len(chat.calls) : chat.calls[i] = "web_search"
           /\ \A j \in 1..Len(chat.calls) :
                  chat.calls[j] = "call_llm"
                      => /\ \E i \in 1..(j - 1) : chat.calls[i] = "web_search"
                         /\ chat.web.text = EmptyText

\* C6: when a step of the vector-index query raises, the chat call goes on to
\* the web search instead of returning an answer from the vector path.
C6_QueryFailureEscalates ==
    (chat.pc \in {"post", "idle"} /\ chat.vec.kind \in {"no_client", "raise"})
        => /\ \E i \in 1..Len(chat.calls) : chat.calls[i] = "web_search"
           /\ chat.pc = "post" => chat.answer # chat.vec.answer

\* C7: when the vector-path answer is insufficient, exec returns, if the web
\* search gave a text, that text behind the web marker with the retrieved
\* resources in rank order followed by one web_search resource, the last; if
\* the web search gave nothing, the text of the direct completion and no
\* web_search resource.
C7_FallbackAnswer ==
    (chat.pc = "post" /\ chat.vec.kind # "unused" /\ insufficient(chat.vec.answer))
        => /\ chat.web.called
           /\ Len(chat.vec.scores) = Len(chat.vec.resources)
           /\ \A i \in 1..Len(chat.vec.scores) : \A j \in i..Len(chat.vec.scores) :
                  chat.vec.scores[i] >= chat.vec.scores[j]
           /\ chat.web.text # EmptyText =>
                  /\ chat.answer = <<WebMarker>> \o chat.web.text
                  /\ chat.resources =
                         chat.vec.resources \o
                         <<[source |-> WebSearchSource, text_snippet |-> chat.web.text]>>
                  /\ \A i \in 1..Len(chat.vec.resources) :
                         chat.resources[i].source # WebSearchSource
                  /\ chat.llm.kind = "unused"
           /\ (chat.web.text = EmptyText /\ chat.llm.kind = "text") =>
                  /\ chat.answer = chat.llm.text
                  /\ chat.calls = <<"query_vector_db", "web_search", "call_llm">>
                  /\ chat.resources = chat.vec.resources
                  /\ \A i \in 1..Len(chat.resources) :
                         chat.resources[i].source # WebSearchSource

\* C7 happens: chunks were retrieved, the answer was insufficient and the web
\* search gave a text.
C7_Witness ==
    /\ chat.pc = "post"
    /\ chat.vec.kind = "answer"
    /\ Len(chat.vec.resources) >= 2
    /\ insufficient(chat.vec.answer)
    /\ chat.web.text # EmptyText
    /\ Len(chat.resources) = Len(chat.vec.resources) + 1

\* C8 (as stated): a chat turn executed alone leaves chat_history as it was,
\* followed by one user entry carrying the question, followed, when the turn
\* completes without error, by one assistant entry carrying the answer, also
\* when that answer is empty.
C8_HistoryAsStated ==
    [][(chat.pc # "idle" /\ chat'.pc = "idle" /\ chat.alone)
          => store'.chat_history =
                 chat.hist0 \o <<UserEntry(chat.question)>> \o
                 (IF chat'.response.code = 200
                  THEN <<AssistantEntry(chat'.response.answer,
                                        chat'.response.resources)>>
                  ELSE <<>>)]_vars

\* C8: a chat turn executed alone with a non-empty question leaves
\* chat_history as it was, followed by one user entry carrying the question,
\* followed, when the turn completes without error with a non-empty answer, by
\* one assistant entry carrying the answer and its resources; a turn with an
\* empty question leaves chat_history as it was.
C8_HistoryAfterTurn ==
    [][(chat.pc # "idle" /\ chat'.pc = "idle" /\ chat.alone)
          => store'.chat_history =
                 IF chat.question = "" THEN chat.hist0
                 ELSE chat.hist0 \o <<UserEntry(chat.question)>> \o
                      (IF chat'.response.code = 200
                          /\ chat'.response.answer # EmptyText
                       THEN <<AssistantEntry(chat'.response.answer,
                                             chat'.response.resources)>>
                       ELSE <<>>)]_vars

\* C8 happens: a turn made alone has completed without error and its answer
\* is the last entry of the stored history, behind the question.
C8_Witness ==
    /\ chat.pc = "idle"
    /\ chat.alone
    /\ chat.response.code = 200
    /\ chat.response.answer # EmptyText
    /\ Len(store.chat_history) = 2
    /\ store.chat_history[1].role = "user"
    /\ store.chat_history[2] =
           AssistantEntry(chat.response.answer, chat.response.resources)

\* C9: when a chat call made alone on a context-ready session completes, the
\* stored status is ready if the turn returned an answer and error if it ended
\* with a handled error; a call with a question to answer, none of whose
\* services fails, leaves status = ready.
C9_StatusAfterChat ==
    [][(chat.pc # "idle" /\ chat'.pc = "idle" /\ chat.entry = "ready" /\ chat.alone)
          => /\ chat'.response.code = 200 => store'.status = "ready"
             /\ chat'.response = Http(500, GenericFailure) => store'.status = "error"
             /\ (/\ chat'.vec.kind \in {"answer", "no_docs", "no_context"}
                 /\ chat'.llm.kind \in {"unused", "text"})
                    => store'.status = "ready"]_vars

\* C10: a chat turn that ends by writing status = error leaves
\* context_is_ready as it was, and the entry point takes up a chat call on a
\* context-ready session whose status is error.
C10_ChatErrorKeepsReady ==
    [][/\ (chat.pc # "idle" /\ chat'.pc = "idle" /\ store' # store
             /\ store'.status = "error")
          => store'.context_is_ready = store.context_is_ready
       /\ (/\ chat.pc = "idle" /\ chat' # chat
           /\ store # NoSession /\ Readable
           /\ store.status = "error" /\ store.context_is_ready)
          => chat'.pc = "prep"]_vars

\* C10 happens: a chat turn has left status = error and the next chat call on
\* the session has passed the entry checks.
C10_Witness ==
    /\ chat.pc = "prep"
    /\ store.status = "error"
    /\ store.context_is_ready
    /\ Head(store.message) = UnexpectedPrefix

C12_IngestionSuccess ==
    [][(ing.pc = "ready" /\ ing'.pc = "idle" /\ ~putUsed
          /\ ing.embedded_chunks # <<>>)
          => LET name == IF payload.input_type = "website"
                         THEN <<"w", "e", "b", "-", "e", "x", "-", "c", "o", "-",
                                "8", "-", "a", "b", "1">>
                         ELSE <<"p", "d", "f", "-", "r", "-", "v", "2", "-",
                                "a", "b", "1">>
             IN /\ store'.status = "ready"
                /\ store'.context_is_ready
                /\ \E i \in 1..Len(store'.active_namespaces) :
                       store'.active_namespaces[i] = name
                /\ name \in DOMAIN index
                /\ Len(index[name]) >= Len(ing.embedded_chunks)]_vars

\* C12 happens: the run on the uploaded file has ended, the session is ready
\* and lists the collection named after the file, which holds the points.
C12_Witness ==
    /\ ing.pc = "idle"
    /\ ~putUsed
    /\ store # NoSession
    /\ store.input_type = "pdf"
    /\ store.status = "ready"
    /\ store.context_is_ready
    /\ store.active_namespaces =
           <<<<"p", "d", "f", "-", "r", "-", "v", "2", "-", "a", "b", "1">>>>
    /\ index[store.active_namespaces[1]] # <<>>

C14_EmptyContentReady ==
    [][(~putUsed /\ ing.pc = "content" /\ ing'.pc = "idle"
          /\ ing'.acquired = "empty")
          => /\ store'.status = "ready"
             /\ store.context_is_ready = FALSE => store'.context_is_ready = FALSE]_vars

\* C15: on a session with context_is_ready = false no step enqueues a FAQ
\* task, and a request made on it that is neither a put nor an ingestion
\* (so: a FAQ generation request, a chat call) leaves the stored record, every
\* field of it, as it was.
C15_FaqRejectedNotReady ==
    [][(store # NoSession /\ ~store.context_is_ready)
          => /\ faqPending' <= faqPending
             /\ (requests' > requests /\ ~putUsed' /\ ingPending' = ingPending)
                    => store' = store]_vars

\* C15 happens: on the session just created a second request was made that
\* was no chat call, put or delivery; the record is the one created and no
\* FAQ task is pending.
C15_Witness ==
    /\ store # NoSession
    /\ store = create_session(payload.input_type, payload.input_value)
    /\ requests = 2
    /\ ~putUsed
    /\ chat = IdleChat
    /\ ingPending = 1
    /\ ing = IdleIngRec
    /\ faqPending = 0
    /\ faq = IdleFaq

\* C16: on a session whose status is processing no step enqueues a FAQ task
\* or marks the session faq_processing, also when context_is_ready is true; a
\* FAQ task is enqueued only when context_is_ready is true and status is not
\* processing.
C16_FaqRejectedProcessing ==
    [][(store # NoSession /\ faqPending' > faqPending)
          => /\ store.context_is_ready
             /\ store.status # "processing"]_vars

\* C17: when a FAQ task run in which no FAQ list was produced (the generator
\* returned nothing, or the session had no processed content) finishes, the
\* stored status is error and generated_faqs is the list stored before.
C17_FailedFaqRunEndsError ==
    [][(/\ faq.pc = "finish" /\ faq.generated_faqs = <<>>
        /\ faq'.pc = "idle"
        /\ store # NoSession /\ Readable)
          => /\ store'.status = "error"
             /\ store'.generated_faqs = store.generated_faqs]_vars

\* C18: when a FAQ task run in which the generator returned a well-formed list
\* finishes, the stored generated_faqs is that list and the status is ready,
\* whether or not the FAQ document was embedded and stored.
C18_FaqListSaved ==
    [][(/\ faq.pc = "finish" /\ faq.generated_faqs # <<>>
        /\ faq'.pc = "idle"
        /\ store # NoSession /\ Readable)
          => /\ store'.status = "ready"
             /\ store'.generated_faqs = faq.generated_faqs]_vars

\* a finished run whose list is saved while no collection holds the FAQ
\* document
C18_Witness ==
    /\ store # NoSession
    /\ store.generated_faqs = Faqs
    /\ store.status = "ready"
    /\ faq = IdleFaq /\ faqPending = 0
    /\ \A name \in DOMAIN index : \A i \in 1..Len(index[name]) :
           index[name][i].text # combined_faq_text(Faqs)

\* a step that sent a retry message
RetrySent ==
    /\ faqRetry' # faqRetry
    /\ IF faqRetry = <<>> THEN TRUE ELSE faqRetry' # Tail(faqRetry)

\* the runs the pending FAQ messages can still lead to: 4 for a message not
\* yet attempted, 4 - n for a retry message counting n re-attempts
RECURSIVE RunsLeft(_)
RunsLeft(queue) ==
    IF queue = <<>> THEN 0 ELSE (4 - Head(queue)) + RunsLeft(Tail(queue))

RetryBudget(pending, queue) == 4 * pending + RunsLeft(queue)

\* C19: no retry message of the FAQ task counts more than 3 re-attempts; a
\* retry message is sent only by a run that ended in its except clause (the
\* error and the exception's text are stored) and counts one re-attempt more
\* than that run; and every retry sequence ends, because every step that
\* takes a FAQ message lowers the number of runs the pending messages can
\* still lead to, which only a newly accepted FAQ request raises.
C19_BoundedRetry ==
    [][/\ \A i \in 1..Len(faqRetry') : faqRetry'[i] \in 1..3
       /\ RetrySent =>
            /\ faq.pc = "idle" /\ faq'.pc = "idle"
            /\ store' # NoSession
            /\ store'.status = "error"
            /\ store'.message \in {StoreError, StoreTimeout}
            /\ faqRetry'[Len(faqRetry')] =
                   IF faqPending' < faqPending THEN 1 ELSE Head(faqRetry) + 1
       /\ (faqPending' # faqPending \/ faqRetry' # faqRetry) =>
            IF faqPending' > faqPending
            THEN requests' = requests + 1 /\ faqRetry' = faqRetry
            ELSE RetryBudget(faqPending', faqRetry')
                     < RetryBudget(faqPending, faqRetry)]_vars

\* the run of the third re-attempt failed too and sent nothing
C19_Witness ==
    /\ store # NoSession
    /\ store.status = "error" /\ store.message = StoreError
    /\ faqRetry = <<>> /\ faqPending = 0 /\ faq.pc = "idle"
    /\ requests = 2 /\ ~putUsed /\ chat = IdleChat

\* C20: the record a step creates has status processing, context_is_ready
\* false and empty active_namespaces, chat_history and generated_faqs; and
\* context_is_ready turns true only in the last step of an ingestion run that
\* stored its points in the session's collection, or by a put.
C20_NewSession ==
    [][/\ (store = NoSession /\ store' # NoSession) =>
            /\ store'.status = "processing"
            /\ ~store'.context_is_ready
            /\ store'.active_namespaces = <<>>
            /\ store'.chat_history = <<>>
            /\ store'.generated_faqs = <<>>
       /\ (store # NoSession /\ ~store.context_is_ready /\ store'.context_is_ready) =>
            IF requests' > requests THEN putUsed'
            ELSE LET name == _generate_collection_name(ing.input_type,
                                 ing.source_for_namespace, SID)
                 IN /\ ing.pc = "ready" /\ ing'.pc = "idle"
                    /\ name \in DOMAIN index
                    /\ index[name] # <<>>]_vars

\* a session whose only ingestion run failed to store its points is still
\* not ready
C20_Witness ==
    /\ store # NoSession
    /\ ~putUsed /\ requests = 1
    /\ ing = IdleIngRec /\ ingPending = 0
    /\ store.status = "error"
    /\ store.message = <<"Failed to store embeddings in vector DB.">>
    /\ ~store.context_is_ready
    /\ store.chat_history = <<>> /\ store.generated_faqs = <<>>

\* C21: the storage-path resolver applied twice to the same arguments gives
\* the same name, and the query-path resolver gives that name too, for every
\* type, source and session id of the bounded sets.
C21_ResolversAgree ==
    /\ resolve.again # NotResolved => resolve.again = resolve.storage
    /\ (resolve.storage # NotResolved /\ resolve.query # NotResolved)
           => resolve.query = resolve.storage

\* both resolvers were applied to a file name that starts with a character
\* which is not alphanumeric and holds two dots
C21_Witness ==
    /\ resolve.input_type = "pdf"
    /\ resolve.source = <<"_", "a", " ", "b", ".", "c", ".", "p", "d", "f">>
    /\ resolve.user_session_id = ExampleId
    /\ resolve.again = resolve.storage
    /\ resolve.query = <<"p", "d", "f", "-", "a", "-", "b", "-", "a", "b", "c", "1", "2", "3", "4", "5">>

\* every character that is not alphanumeric replaced by the delimiter
normalized(s) == lower([i \in 1..Len(s) |-> IF isalnum(s[i]) THEN s[i] ELSE "-"])

\* the base file name without its extension
extensionless(s) ==
    LET b == basename(s) k == rfind(b, ".", Len(b))
    IN IF k = 0 THEN b ELSE SubSeq(b, 1, k - 1)

\* the name C22 describes
DescribedName(input_type, source, user_session_id) ==
    LET prefix == lower(split0(user_session_id, "-")) IN
    IF input_type = "website"
    THEN <<"w", "e", "b", "-">> \o normalized(netloc(source)) \o <<"-">> \o prefix
    ELSE IF input_type = "pdf"
    THEN <<"p", "d", "f", "-">> \o normalized(extensionless(source)) \o <<"-">> \o prefix
    ELSE <<"u", "n", "k", "n", "o", "w", "n", "-">> \o prefix

\* C22: the resolver maps the two examples to web-example-com-abc12345 and
\* pdf-report-final-v2-abc12345, and every name it gives is the type tag, the
\* host or the extension-less base file name with every non-alphanumeric
\* character replaced by the delimiter and lower-cased, and the session
\* prefix; for an unknown type it is the fallback name with the prefix.
C22_ResolvedName ==
    resolve.storage # NotResolved =>
        /\ (resolve.input_type = "website" /\ resolve.source = ExampleUrl
               /\ resolve.user_session_id = ExampleId)
              => resolve.storage = <<"w", "e", "b", "-", "e", "x", "a", "m", "p", "l", "e", "-", "c", "o", "m", "-", "a", "b", "c", "1", "2", "3", "4", "5">>
        /\ (resolve.input_type = "pdf" /\ resolve.source = ExamplePdf
               /\ resolve.user_session_id = ExampleId)
              => resolve.storage = <<"p", "d", "f", "-", "r", "e", "p", "o", "r", "t", "-", "f", "i", "n", "a", "l", "-", "v", "2", "-", "a", "b", "c", "1", "2", "3", "4", "5">>
        /\ resolve.storage = DescribedName(resolve.input_type, resolve.source,
                                  resolve.user_session_id)

\* the namespace the ingestion run of each request resolves
IngestionNamespaces ==
    [inp \in IngestInputs |->
        _generate_collection_name(inp.input_type, inp.input_value, SID)]

\* the namespace the session's ingestion run resolves
IngestionNamespace == IngestionNamespaces[payload]

\* C23: every point, the FAQ document included, is in the collection the
\* ingestion run resolved from the original source, and with no put on the
\* session active_namespaces holds that namespace and no other (once, when the
\* session is ready).
C23_FaqSameNamespace ==
    store # NoSession =>
        /\ DOMAIN index \subseteq {IngestionNamespace}
        /\ ~putUsed =>
              /\ Range(store.active_namespaces) \subseteq {IngestionNamespace}
              /\ Len(store.active_namespaces) <= 1
              /\ store.context_is_ready =>
                     store.active_namespaces = <<IngestionNamespace>>

\* a pdf session after a FAQ run that stored its document
C23_Witness ==
    /\ store # NoSession /\ ~putUsed
    /\ store.input_type = "pdf"
    /\ store.generated_faqs = Faqs
    /\ faq = IdleFaq
    /\ store.active_namespaces = <<<<"p", "d", "f", "-", "r", "-", "v", "2", "-", "a", "b", "1">>>>
    /\ IngestionNamespace \in DOMAIN index
    /\ \E i \in 1..Len(index[IngestionNamespace]) :
           index[IngestionNamespace][i].text = combined_faq_text(Faqs)

\* the runs of the two flows C24 describes, complete or cut short while a
\* node is executing
SetupRuns ==
    {<<>>,
     <<<<"InputNode", "error">>>>,
     <<<<"InputNode", "default">>>>,
     <<<<"InputNode", "default">>, <<"ContentProcessingNode", "error">>,
       <<"EndNode", None>>>>,
     <<<<"InputNode", "default">>, <<"ContentProcessingNode", "default">>,
       <<"EndNode", None>>>>}

FaqRuns ==
    {<<>>,
     <<<<"FAQGenerationNode", "error">>, <<"EndNode", None>>>>,
     <<<<"FAQGenerationNode", "default">>>>}

\* C24: a run of the ingestion flow executes InputNode, ContentProcessingNode,
\* EndNode in this order, each at most once, and nothing after an "error" of
\* InputNode; a run of the FAQ flow executes FAQGenerationNode and then
\* EndNode only after an "error", nothing after a "default"; while
\* ContentProcessingNode is executing only InputNode has run, and when a run
\* is over the process is idle.
C24_FlowRuns ==
    /\ flowlog.setup \in SetupRuns
    /\ flowlog.faq \in FaqRuns
    /\ ing.pc # "idle" => flowlog.setup = <<<<"InputNode", "default">>>>
    /\ Len(flowlog.setup) \in {1, 3} /\ flowlog.setup[1][2] = "error" => ing.pc = "idle"
    /\ Len(flowlog.setup) = 3 => ing.pc = "idle"
    /\ faq.pc \in {"prep", "exec", "save"} => flowlog.faq = <<>>
    /\ faq.pc = "finish" => flowlog.faq # <<>>

\* an ingestion run and a FAQ run both ended on their default action
C24_Witness ==
    /\ flowlog.setup = <<<<"InputNode", "default">>,
                         <<"ContentProcessingNode", "default">>, <<"EndNode", None>>>>
    /\ flowlog.faq = <<<<"FAQGenerationNode", "default">>>>
    /\ ing.pc = "idle" /\ faq.pc = "idle" /\ ingPending = 0
    /\ store.generated_faqs = Faqs

\* an ingestion run ended on the "error" of InputNode
C24_InputError ==
    /\ flowlog.setup = <<<<"InputNode", "error">>>>
    /\ ing.pc = "idle"

\* a step in which a FAQ run ended in the except clause of the task
FaqRunRaised ==
    /\ faq.pc = "idle" /\ faq'.pc = "idle"
    /\ \/ faqPending' < faqPending
       \/ faqRetry # <<>> /\ faqRetry' # faqRetry
    /\ faq'.exc # None

\* a step that ran the message of the last re-attempt max_retries allows
LastAttempt ==
    /\ faqPending' = faqPending
    /\ faqRetry # <<>> /\ Head(faqRetry) = 3

\* C25: every FAQ run that ends in the task's except clause leaves the
\* session with status error and the text of the exception of that very run
\* as message, whatever an earlier run had left; a run that is not the last
\* one allowed sends exactly one retry message, and the run of the third
\* re-attempt sends none, so that nothing is left of the request.
C25_RetriesExhausted ==
    [][FaqRunRaised =>
         /\ store' # NoSession
         /\ store'.status = "error"
         /\ store'.message = faq'.exc
         /\ IF LastAttempt
            THEN faqRetry' = Tail(faqRetry)
            ELSE /\ Len(faqRetry') = Len(faqRetry) + (IF faqPending' < faqPending THEN 1 ELSE 0)
                 /\ faqRetry'[Len(faqRetry')] \in 1..3]_vars

\* the four runs of the only FAQ request have failed, the last one on a
\* timeout; its text is the stored message and nothing is pending
C25_Witness ==
    /\ store # NoSession
    /\ store.status = "error" /\ store.message = StoreTimeout
    /\ faq.pc = "idle" /\ faq.exc = StoreTimeout
    /\ faqRetry = <<>> /\ faqPending = 0
    /\ requests = 2 /\ ~putUsed /\ chat = IdleChat

\* C26: a namespace the stored record lists is listed by every record stored
\* after it, whatever the order in which the gets and sets of the workers'
\* session updates land.
C26_NamespaceKept ==
    [][Range(store.active_namespaces) \subseteq Range(store'.active_namespaces)]_vars

\* C27: while two runs of the ingestion task (a second delivery of the
\* message; either may fail) make their session updates in any order, every
\* stored record that is ready for chat lists a namespace.
C27_ReadyHasNamespace ==
    (tasks["faq"].pc = "queued" /\ \A w \in ChatWorkers : tasks[w].pc = "queued")
        => (store.context_is_ready => store.active_namespaces # <<>>)

\* no task run is in progress: the chat requests are alone on the session
OnlyChatRunning == running \subseteq ChatWorkers

\* C28: while two chat turns, alone on the session, make their session
\* updates in any order, the stored history only grows at its end, and with
\* both turns over it holds the user entry of each.
C28_HistoryAppendOnly ==
    [][OnlyChatRunning =>
         /\ Len(store'.chat_history) >= Len(store.chat_history)
         /\ SubSeq(store'.chat_history, 1, Len(store.chat_history))
                = store.chat_history
         /\ (\A w \in ChatWorkers : tasks'[w].pc = "done")
               => \A w \in ChatWorkers :
                    \E i \in 1..Len(store'.chat_history) :
                       store'.chat_history[i] = UserEntry(worker_question(w))]_vars

\* C29: store_embeddings_in_qdrant returns True to every worker that found
\* the index answering, whether the collection existed, was created by it or
\* was created by another worker in between.
C29_EnsureCollection ==
    \A w \in Workers : tasks[w].success # "False"

\* C30: when the ingestion task has run a second time on the same message,
\* after the first run had returned and with the services answering as they
\* did, the stored record has the status, readiness, message and processed
\* content the first run left, and lists the same namespaces, none twice.
C30_RerunSameRecord ==
    rerun.runs = 2 =>
        /\ store.status = rerun.first.status
        /\ store.context_is_ready = rerun.first.context_is_ready
        /\ store.message = rerun.first.message
        /\ store.processed_content = rerun.first.processed_content
        /\ Range(store.active_namespaces) = Range(rerun.first.active_namespaces)
        /\ Cardinality(Range(store.active_namespaces)) = Len(store.active_namespaces)

\* both runs stored their points and the session was made ready twice
C30_Witness ==
    /\ rerun.runs = 2
    /\ store.context_is_ready /\ store.status = "ready"
    /\ Len(store.active_namespaces) = 1
    /\ Len(index[store.active_namespaces[1]]) = 2 * Len(Windows)

\* C31: an update of the session changes exactly the named fields of the
\* stored record and leaves every other field as it was in the record read at
\* the start of the update; an update of a session that has no record leaves
\* the store without a record and reports absence.
C31_UpdateFrame ==
    [][\A c \in PutCallers :
         /\ (tasks[c].pc = "set" /\ tasks'[c].pc = "done") =>
               /\ store' # NoSession
               /\ DOMAIN store' = DOMAIN tasks[c].session
               /\ \A f \in DOMAIN store' :
                    store'[f] = IF f \in DOMAIN tasks[c].updates
                                THEN tasks[c].updates[f]
                                ELSE tasks[c].session[f]
               /\ tasks'[c].response.code = 200
               /\ tasks'[c].response.body = store'
         /\ (tasks[c].pc = "get" /\ store = NoSession /\ tasks'[c].pc # "get") =>
               /\ store' = NoSession
               /\ tasks'[c].response = Http(404, "Session not found.")]_vars

\* Two requests were answered 200; the second wrote the record it had read
\* before the first one's write, with its own two fields.
C31_Witness ==
    /\ \A c \in PutCallers : tasks[c].pc = "done" /\ tasks[c].response.code = 200
    /\ tasks["put"].updates = [context_is_ready |-> FALSE]
    /\ tasks["put2"].updates =
           [status |-> "ready", message |-> <<"Manually set to ready">>]
    /\ store.status = "ready"
    /\ store.context_is_ready
    /\ store.active_namespaces # <<>>

\* a request for a session without a record was answered 404
C31_AbsentReported ==
    \E c \in PutCallers :
        /\ store = NoSession
        /\ tasks[c].pc = "done"
        /\ tasks[c].response.code = 404

\* C32: the chunk-and-embed step returns exactly the windows whose embedding
\* request succeeded, in their original order, each with the source label, its
\* text and its embedding; a window whose request failed is the only one
\* dropped.
C32_EmbeddedWindows ==
    LET ok == rerun.outcomes.ok
        chunks == ing.embedded_chunks
    IN /\ ing.pc \in {"upsert", "namespace", "ready"} =>
            \E at \in [1..Len(chunks) -> 1..Len(Windows)] :
                /\ \A j, k \in 1..Len(chunks) : j < k => at[j] < at[k]
                /\ {at[k] : k \in 1..Len(chunks)} = {i \in 1..Len(Windows) : ok[i]}
                /\ \A k \in 1..Len(chunks) :
                     chunks[k] = [source    |-> ing.input_value,
                                  text      |-> Windows[at[k]],
                                  embedding |-> Embedding(Windows[at[k]])]
       /\ (ing.pc = "idle" /\ ing.acquired = "text") =>
            \A i \in 1..Len(Windows) : ~ok[i]

\* the request for the first window failed and the second window was returned
C32_Witness ==
    /\ ing.pc = "upsert"
    /\ ~rerun.outcomes.ok[1] /\ rerun.outcomes.ok[2]
    /\ Len(ing.embedded_chunks) = 1
    /\ ing.embedded_chunks[1].text = Windows[2]

\* the run acquires content and none of its embedding requests succeeds
EmptyBatch ==
    /\ rerun.outcomes.got
    /\ \A i \in 1..Len(Windows) : ~rerun.outcomes.ok[i]

\* C33: when content was acquired and no window is embedded, the ingestion
\* run fails: nothing is upserted, active_namespaces is unchanged,
\* context_is_ready stays false and the session ends with status = error.
C33_EmptyBatchFails ==
    EmptyBatch =>
        /\ index = <<>>
        /\ store.active_namespaces = <<>>
        /\ ~store.context_is_ready
        /\ rerun.runs >= 1 => store.status = "error"

\* a run has ended on the embedding step after it had acquired content
C33_Witness ==
    /\ EmptyBatch
    /\ rerun.runs = 1
    /\ ing.pc = "idle" /\ ing.acquired = "text"
    /\ store.status = "error"
    /\ store.message = <<"Failed to create embeddings.">>

\* the points of every collection of the index
Points == UNION {Range(index[name]) : name \in DOMAIN index}

\* C34: every point upserted into the vector index, by the ingestion path or
\* by the FAQ path, has a non-empty text and a non-empty embedding vector,
\* the one the embedding request answered for its text; what a failed request
\* returned is never upserted.
C34_PointsEmbedded ==
    \A point \in Points :
        /\ point.text # <<>>
        /\ point.vector # <<>>
        /\ point.vector = Embedding(point.text)

\* the collection holds a window of a run one of whose embedding requests
\* failed, and the document of a FAQ run
C34_Witness ==
    \E name \in DOMAIN index :
        /\ \E p \in Range(index[name]) : p.text = combined_faq_text(Faqs)
        /\ \E p \in Range(index[name]) : p.text = Windows[2]
        /\ \A p \in Range(index[name]) : p.text # Windows[1]

\* the vector query of the chat call has run its searches
Queried == chat.vec.kind \in {"answer", "no_context"}

\* the entries of seq that satisfy Test
Count(seq, Test(_)) == Cardinality({i \in 1..Len(seq) : Test(seq[i])})

\* Every listed collection gave at most SearchLimit of the resources; the
\* points of a collection carry the source of the session that stored them.
PerNamespaceLimit ==
    Queried =>
        LET FromOther(r) == r.source = OtherSource
            FromOwn(r) == r.source # OtherSource
            IsOther(n) == n = OtherNamespace
            IsOwn(n) == n \notin {OtherNamespace, GoneNamespace}
        IN /\ Count(chat.vec.resources, FromOther)
                  <= SearchLimit * Count(store.active_namespaces, IsOther)
           /\ Count(chat.vec.resources, FromOwn)
                  <= SearchLimit * Count(store.active_namespaces, IsOwn)

\* The resources come in non-increasing order of score, whatever collection
\* they are from.
GloballyRanked ==
    Queried =>
        \A i, j \in 1..Len(chat.vec.scores) :
            i < j => chat.vec.scores[i] >= chat.vec.scores[j]

\* C35: for a query over several active namespaces, each namespace is
\* searched with a limit of 3, the resources returned are in non-increasing
\* order of relevance score across all namespaces together, and the list has
\* no more entries than the limit.
C35_RankedAndTruncated ==
    /\ PerNamespaceLimit
    /\ GloballyRanked
    /\ Queried => Len(chat.vec.resources) <= SearchLimit

\* the smaller of two numbers
Min(a, b) == IF a < b THEN a ELSE b

\* the number of hits the searches of the listed collections that exist give
RECURSIVE ExistingHits(_)
ExistingHits(names) ==
    IF names = <<>> THEN 0
    ELSE (IF Exists(Head(names)) THEN Min(SearchLimit, Len(index[Head(names)])) ELSE 0)
         + ExistingHits(Tail(names))

\* C36: when a namespace listed in active_namespaces does not exist in the
\* vector index at query time, the query skips it without error and returns
\* the ranked matches of every other listed namespace that exists.
C36_MissingSkipped ==
    (GoneNamespace \in Range(store.active_namespaces) /\ chat.vec.kind # "unused") =>
        /\ chat.vec.kind \in {"answer", "no_context", "raise", "no_client"}
        /\ Queried =>
             /\ Len(chat.vec.resources) = ExistingHits(store.active_namespaces)
             /\ chat.vec.kind = "no_context" <=>
                    \A n \in Range(store.active_namespaces) : ~Exists(n)
             /\ GloballyRanked

\* a name without a collection stands between two names that have one, and
\* the hits of both were returned
C36_Witness ==
    /\ Len(store.active_namespaces) = 3
    /\ store.active_namespaces[2] = GoneNamespace
    /\ chat.vec.kind = "answer"
    /\ Len(chat.vec.resources) = SearchLimit + Len(OtherPoints)
    /\ chat.vec.resources[1].source = OtherSource

\* One accepted FAQ request is queued or its task run has not yet left the
\* node, and nothing but chat turns goes on beside it.
FaqInProgress ==
    /\ \/ faqPending = 1 /\ faq.pc = "idle"
       \/ faqPending = 0 /\ faq.pc \in {"prep", "exec", "save"}
    /\ faqRetry = <<>>
    /\ ingPending = 0 /\ ing.pc = "idle"
    /\ ~putUsed

\* C37: from the moment a FAQ request is accepted until the FAQ task run
\* finishes the stored status remains faq_processing, also when chat turns on
\* the same session run at the same time.
C37_FaqProcessingKept ==
    [][(FaqInProgress /\ FaqInProgress' /\ store.status = "faq_processing")
          => store'.status = "faq_processing"]_vars

\* the steps an ingestion run has still to take at most
IngRank(pc) ==
    CASE pc = "content" -> 4
      [] pc = "upsert" -> 3
      [] pc = "namespace" -> 2
      [] pc = "ready" -> 1
      [] OTHER -> 0

\* C38: every ingestion task run finishes, and with the session record
\* readable and the store answering, the stored status is ready or error once
\* the run has ended, on every path through the flow and through the except
\* clause of the task: every step of a run brings it nearer to its end, and
\* the step that ends it leaves the status ready or error.
C38_IngestionRunEnds ==
    [][(Readable /\ (ing' # ing \/ ingPending' < ingPending)) =>
          /\ ing.pc # "idle" => IngRank(ing'.pc) < IngRank(ing.pc)
          /\ ing'.pc = "idle" => store'.status \in {"ready", "error"}]_vars

\* a run in progress can always take its next step
IngestionRunCanStep == ing.pc # "idle" => ENABLED NextRerun

\* a second delivery of the message of a ready session ended in the except
\* clause of the task
C38_Witness ==
    /\ ing.pc = "idle"
    /\ ingPending = 0
    /\ store # NoSession
    /\ store.context_is_ready
    /\ store.status = "error"
    /\ store.message = TempFileError

\* the number of points a run of the task upserts
RunPoints == Cardinality({i \in 1..Len(Windows) : rerun.outcomes.ok[i]})

\* C39: readiness is published last: context_is_ready = true is in the stored
\* record only once a run has ended, and then the points of every run that
\* has ended are in the index under the resolved name and the name is
\* recorded in active_namespaces; no stored record shows
\* context_is_ready = true while the run's points are not in the index.
C39_ReadinessLast ==
    store.context_is_ready =>
        /\ rerun.runs >= 1
        /\ RunPoints >= 1
        /\ IngestionNamespace \in Range(store.active_namespaces)
        /\ Exists(IngestionNamespace)
        /\ Len(index[IngestionNamespace]) >= rerun.runs * RunPoints

\* the first run has just published readiness; its one point is in the index
C39_Witness ==
    /\ rerun.runs = 1
    /\ ing.pc = "idle"
    /\ store.context_is_ready
    /\ RunPoints = 1
    /\ store.active_namespaces = <<IngestionNamespace>>
    /\ Len(index[IngestionNamespace]) = 1

\* the fields of the record a chat turn writes
ChatFields == {"chat_history", "status", "message"}

\* C40: a chat turn that runs with no other writer changes only
\* chat_history, status and message of the session record: context_is_ready,
\* active_namespaces, generated_faqs, processed_content, input_type and
\* input_value are after every step of the turn what they were before it,
\* whether the turn succeeds or fails.
C40_ChatFrame ==
    [][/\ store' # NoSession
       /\ DOMAIN store' = DOMAIN store
       /\ \A f \in DOMAIN store \ ChatFields : store'[f] = store[f]
       /\ {"context_is_ready", "active_namespaces", "generated_faqs",
           "processed_content", "input_type", "input_value"} \subseteq
              DOMAIN store \ ChatFields]_vars

\* a turn has failed after its query of several namespaces: the user entry
\* and the error are stored, the session is still ready for chat
C40_Witness ==
    /\ chat.pc = "idle"
    /\ chat.response = Http(500, GenericFailure)
    /\ chat.vec.kind = "answer"
    /\ store.status = "error"
    /\ Len(store.chat_history) = 1
    /\ store.context_is_ready
    /\ Len(store.active_namespaces) = 3

====
